---- MODULE Spec2Model ----
(***************************************************************************)
(* A model of the Helios compiler's program assembly                       *)
(* (src/unnamed/part_000): module dependency resolution and Program.new,   *)
(* entry-point validation and lowering of the purpose-specific programs,   *)
(* and the definition-graph builder.                                       *)
(***************************************************************************)
EXTENDS Integers, Sequences, FiniteSets, TLC

VARIABLES
    candidates,   \* the names of the candidate modules (Program.parseImports)
    statements,   \* module id -> the module names of its import statements, in statement order
    hasPost,      \* parseMain: statements follow the entry function (modules.length > 1)
    pc,           \* position inside Program.new
    mainImports,  \* Program.new: let mainImports
    postImports,  \* Program.new: let postImports
    modules,      \* Program.new: the final module order
    err,          \* the error Program.new threw ("none" while it has not)
    mainWalk,     \* record of the filterDependencies call on the main module
    postWalk,     \* record of the filterDependencies call on the post-main module
    purpose,      \* Program.#purpose
    argTypeNames, \* mainFunc.argTypeNames ("" for an underscore argument)
    retTypes,     \* mainFunc.retTypes
    epc,          \* position of the program: parsed, type-checked, lowered
    evalResult,   \* how evalTypes ended
    warnings,     \* the deprecation warnings raised so far
    outerArgs,    \* toIR: the parameters of the wrapper
    innerArgs,    \* toIR: the arguments the entry function is called with
    entryCall,    \* toIR: the function called and the function it is first applied to
    defs,         \* fetchDefinitions: let map, the definitions of the statements, in order
    graph,        \* the definitions fetchDefinitions returns, in order
    dpc,          \* position inside fetchDefinitions
    program,      \* Program.allStatements: the statements of all modules, in order
    parameterCache, \* Program.#parameters
    lastCall,     \* the last request to the program and what it gave
    typeMap,      \* the Map<string, Type> of one inference pass, as a sequence of bindings
    typeCall      \* the last request to the type model and what it gave

depsVars == <<candidates, statements, hasPost, pc, mainImports, postImports, modules, err,
              mainWalk, postWalk>>

entryVars == <<purpose, argTypeNames, retTypes, epc, evalResult, warnings, outerArgs,
               innerArgs, entryCall>>

defsVars == <<defs, graph, dpc>>

paramVars == <<program, parameterCache, lastCall>>

typeVars == <<typeMap, typeCall>>

vars == <<depsVars, entryVars, defsVars, paramVars, typeVars>>

(***************************************************************************)
(* Bounds                                                                  *)
(***************************************************************************)
\* total number of import statements in the program (all modules together)
MaxImportStatements == 4

\* number of arguments of the entry function
MaxArgs == 4

\* number of return types of the entry function
MaxRets == 2

\* total number of symbolic references in the bodies of the user definitions
MaxRefs == 3

\* length of the parameter list IR is requested with
MaxParams == 2

(***************************************************************************)
(* Modules                                                                 *)
(***************************************************************************)
\* the modules that can be handed to Program.new as moduleSrcs
ImportNames == {"a", "b", "c"}

\* the candidate modules of the programs that have a post-main region
ProgramImportNames == {"a", "b"}

\* the main module and the post-main module (the statements after main)
MainId == "main"
PostId == "post"
ModuleIds == <<MainId, PostId, "a", "b", "c">>

\* a module name no candidate has
MissingName == "x"

\* what an import statement can name, given the candidate modules
ImportTargets(cands) == cands \cup {MainId, MissingName}

\* Module.name: the post-main module is built with the main module's name
NameOf(m) == IF m = PostId THEN MainId ELSE m

InSeq(x, s) == \E k \in 1..Len(s) : s[k] = x

Max(a, b) == IF a >= b THEN a ELSE b

RECURSIVE SeqsOfLen(_, _)
SeqsOfLen(S, n) ==
    IF n = 0 THEN {<<>>}
    ELSE {<<x>> \o s : x \in S, s \in SeqsOfLen(S, n - 1)}

SeqsUpTo(S, n) == UNION {SeqsOfLen(S, k) : k \in 0..n}

\* the statements of all modules: s1..s4 for the modules m1..m4, the others empty
StatementsOf(m1, s1, m2, s2, m3, s3, m4, s4) ==
    [m \in {ModuleIds[k] : k \in 1..Len(ModuleIds)} |->
        IF m = m1 THEN s1 ELSE IF m = m2 THEN s2
        ELSE IF m = m3 THEN s3 ELSE IF m = m4 THEN s4 ELSE <<>>]

\* every way to give four modules import statements, at most budget in total
LaidOut(m1, m2, m3, m4, targets, budget) ==
    \E s1 \in SeqsUpTo(targets, budget) :
    \E s2 \in SeqsUpTo(targets, budget - Len(s1)) :
    \E s3 \in SeqsUpTo(targets, budget - Len(s1) - Len(s2)) :
    \E s4 \in SeqsUpTo(targets, budget - Len(s1) - Len(s2) - Len(s3)) :
        statements = StatementsOf(m1, s1, m2, s2, m3, s3, m4, s4)

(***************************************************************************)
(* Module.filterDependencies                                               *)
(***************************************************************************)
NoError == "none"

Thrown(kind, calls, depth) ==
    [err |-> kind, deps |-> <<>>, calls |-> calls, depth |-> depth]

\* importOutcome with the module looked up before the cycle checks
importOutcome_lookupFirst(this, stack, deps, mn) ==
    IF InSeq(mn, deps) THEN "skip"
    ELSE IF mn \notin candidates THEN "notfound"
    ELSE IF mn = NameOf(this) THEN "self"
    ELSE IF \E k \in 1..Len(stack) : NameOf(stack[k]) = mn THEN "circular"
    ELSE "walk"

\* what the loop body does with one import statement of module this
importOutcome(this, stack, deps, mn) ==
    IF mn = NameOf(this) THEN "self"
    ELSE IF \E k \in 1..Len(stack) : NameOf(stack[k]) = mn THEN "circular"
    ELSE IF InSeq(mn, deps) THEN "skip"
    ELSE IF mn \notin candidates THEN "notfound"
    ELSE "walk"

\* newDeps with the module put before its own dependencies
newDeps_moduleFirst(subDeps, m, deps) ==
    SelectSeq(<<m>> \o subDeps, LAMBDA d : ~InSeq(d, deps))

\* m.filterDependencies(..).concat([m]).filter(d => !deps.some(..))
newDeps(subDeps, m, deps) ==
    SelectSeq(subDeps \o <<m>>, LAMBDA d : ~InSeq(d, deps))

RECURSIVE filterDependencies(_, _)
RECURSIVE walkStatements(_, _, _, _, _, _)

\* the for loop of filterDependencies from statement i on; calls lists the
\* modules filterDependencies has been invoked on so far, depth is the
\* deepest recursion so far
walkStatements(this, stack, i, deps, calls, depth) ==
    IF i > Len(statements[this])
    THEN [err |-> NoError, deps |-> deps, calls |-> calls, depth |-> depth]
    ELSE LET mn == statements[this][i]
             o  == importOutcome(this, stack, deps, mn)
         IN  CASE o = "self"     -> Thrown("SyntaxError", calls, depth)
               [] o = "circular" -> Thrown("SyntaxError", calls, depth)
               [] o = "notfound" -> Thrown("ReferenceError", calls, depth)
               [] o = "skip"     -> walkStatements(this, stack, i + 1, deps, calls, depth)
               [] o = "walk"     ->
                    LET r == filterDependencies(mn, <<this>> \o stack)
                    IN  IF r.err # NoError
                        THEN Thrown(r.err, calls \o r.calls, Max(depth, r.depth))
                        ELSE walkStatements(this, stack, i + 1,
                                            deps \o newDeps(r.deps, mn, deps),
                                            calls \o r.calls, Max(depth, r.depth))

filterDependencies(this, stack) ==
    walkStatements(this, stack, 1, <<>>, <<this>>, Len(stack) + 1)

(***************************************************************************)
(* Program.new                                                             *)
(***************************************************************************)
NoWalk == [err |-> NoError, deps |-> <<>>, calls |-> <<>>, depth |-> 0]

\* filterPostImports without the filter
filterPostImports_unfiltered(deps, mainDeps) == deps

\* .filter(m => !mainImports.some(d => d.name.value == m.name.value))
filterPostImports(deps, mainDeps) ==
    SelectSeq(deps, LAMBDA m : ~InSeq(m, mainDeps))

\* mainImports.concat([modules[0]]).concat(postImports).concat(modules.slice(1))
finalOrder(mainDeps, postDeps, post) ==
    mainDeps \o <<MainId>> \o postDeps \o (IF post THEN <<PostId>> ELSE <<>>)

\* no type under consideration
IdleTypes ==
    /\ typeMap = <<>>
    /\ typeCall = <<>>

\* no program with parameters under consideration
IdleParams ==
    /\ program = <<>>
    /\ parameterCache = <<>>
    /\ lastCall = <<>>

\* no definition graph under construction
IdleDefs ==
    /\ defs = <<>>
    /\ graph = <<>>
    /\ dpc = "idle"

\* no entry function under consideration
IdleEntry ==
    /\ purpose = "Testing"
    /\ argTypeNames = <<>>
    /\ retTypes = <<>>
    /\ epc = "idle"
    /\ evalResult = "pending"
    /\ warnings = 0
    /\ outerArgs = <<>>
    /\ innerArgs = <<>>
    /\ entryCall = <<>>

StartOfProgramNew ==
    /\ pc = "parsed"
    /\ mainImports = <<>>
    /\ postImports = <<>>
    /\ modules = <<>>
    /\ err = NoError
    /\ mainWalk = NoWalk
    /\ postWalk = NoWalk

\* a main module without post-main region, over the candidates a, b, c
InitDeps ==
    /\ candidates = ImportNames
    /\ LaidOut(MainId, "a", "b", "c", ImportTargets(ImportNames), MaxImportStatements)
    /\ hasPost = FALSE
    /\ StartOfProgramNew
    /\ IdleEntry
    /\ IdleDefs
    /\ IdleParams
    /\ IdleTypes

\* a main module with or without post-main region, over the candidates a, b
InitProgram ==
    /\ candidates = ProgramImportNames
    /\ LaidOut(MainId, PostId, "a", "b", ImportTargets(ProgramImportNames), MaxImportStatements)
    /\ hasPost \in BOOLEAN
    /\ (statements[PostId] # <<>> => hasPost)
    /\ StartOfProgramNew
    /\ IdleEntry
    /\ IdleDefs
    /\ IdleParams
    /\ IdleTypes

\* let mainImports = modules[0].filterDependencies(imports)
ResolveMainImports ==
    /\ pc = "parsed"
    /\ LET r == filterDependencies(MainId, <<>>)
       IN  /\ mainWalk' = r
           /\ err' = r.err
           /\ mainImports' = r.deps
           /\ pc' = IF r.err = NoError THEN "mainResolved" ELSE "failed"
    /\ UNCHANGED <<candidates, statements, hasPost, postImports, modules, postWalk, entryVars, defsVars, paramVars, typeVars>>

\* if (modules.length > 1) postImports = ...filterDependencies(imports).filter(..)
ResolvePostImports ==
    /\ pc = "mainResolved"
    /\ LET r == IF hasPost THEN filterDependencies(PostId, <<>>) ELSE NoWalk
       IN  /\ postWalk' = r
           /\ err' = r.err
           /\ postImports' = filterPostImports(r.deps, mainImports)
           /\ pc' = IF r.err = NoError THEN "postResolved" ELSE "failed"
    /\ UNCHANGED <<candidates, statements, hasPost, mainImports, modules, mainWalk, entryVars, defsVars, paramVars, typeVars>>

\* modules = mainImports.concat([modules[0]]).concat(postImports).concat(modules.slice(1))
OrderModules ==
    /\ pc = "postResolved"
    /\ modules' = finalOrder(mainImports, postImports, hasPost)
    /\ pc' = "ordered"
    /\ UNCHANGED <<candidates, statements, hasPost, mainImports, postImports, err, mainWalk, postWalk, entryVars, defsVars, paramVars, typeVars>>

NextDeps == ResolveMainImports

SpecDeps == InitDeps /\ [][NextDeps]_vars

NextProgram == ResolveMainImports \/ ResolvePostImports \/ OrderModules

SpecProgram == InitProgram /\ [][NextProgram]_vars

(***************************************************************************)
(* Entry-point validation: evalTypes of the purpose-specific programs      *)
(***************************************************************************)
Purposes == {"Testing", "Spending", "Minting", "Staking"}

\* the type names an argument of main can carry; "" stands for an underscore
ArgTypeNames == {"", "Datum", "Redeemer", "ScriptContext", "Bool"}

\* the types main can return
RetTypeNames == {"Bool", "Int"}

\* DatumRedeemerProgram: if (argTypeNames.length > 3)
DatumRedeemerArity == 3

\* RedeemerProgram: if (argTypeNames.length > 2)
RedeemerArity == 2

\* BoolType.isBaseOf(t)
BoolIsBaseOf(t) == t = "Bool"

\* argTypeNames.some(name => name == "")
haveUnderscores(args) == \E i \in 1..Len(args) : args[i] = ""

\* the check of the number of arguments that precedes the loop:
\* a type error, a failed assertion, a deprecation warning, or nothing
checkArgCount_warningIsFatal(args, arity) ==
    IF Len(args) > arity THEN "TypeError"
    ELSE IF haveUnderscores(args)
         THEN (IF Len(args) = arity THEN "ok" ELSE "AssertionError")
         ELSE (IF Len(args) # arity THEN "TypeError" ELSE "ok")

checkArgCount(args, arity) ==
    IF Len(args) > arity THEN "TypeError"
    ELSE IF haveUnderscores(args)
         THEN (IF Len(args) = arity THEN "ok" ELSE "AssertionError")
         ELSE (IF Len(args) # arity THEN "deprecated" ELSE "ok")

\* DatumRedeemerProgram.evalTypesInternal: the loop over argTypeNames from i on
RECURSIVE checkDatumRedeemerArgs(_, _, _, _, _)
checkDatumRedeemerArgs(args, i, haveDatum, haveRedeemer, haveScriptContext) ==
    IF i > Len(args) THEN "ok"
    ELSE LET t == args[i]
             us == haveUnderscores(args)
         IN  IF t = ""
             THEN checkDatumRedeemerArgs(args, i + 1, haveDatum, haveRedeemer, haveScriptContext)
             ELSE IF t = "Datum"
             THEN IF us /\ i # 1 THEN "TypeError"
                  ELSE IF haveDatum THEN "TypeError"
                  ELSE IF haveRedeemer THEN "TypeError"
                  ELSE IF haveScriptContext THEN "TypeError"
                  ELSE checkDatumRedeemerArgs(args, i + 1, TRUE, haveRedeemer, haveScriptContext)
             ELSE IF t = "Redeemer"
             THEN IF us /\ i # 2 THEN "TypeError"
                  ELSE IF haveRedeemer THEN "TypeError"
                  ELSE IF haveScriptContext THEN "TypeError"
                  ELSE checkDatumRedeemerArgs(args, i + 1, haveDatum, TRUE, haveScriptContext)
             ELSE IF t = "ScriptContext"
             THEN IF us /\ i # 3 THEN "TypeError"
                  ELSE IF haveScriptContext THEN "TypeError"
                  ELSE checkDatumRedeemerArgs(args, i + 1, haveDatum, haveRedeemer, TRUE)
             ELSE "TypeError"

\* RedeemerProgram.evalTypesInternal: the loop over argTypeNames from i on
RECURSIVE checkRedeemerArgs(_, _, _, _)
checkRedeemerArgs(args, i, haveRedeemer, haveScriptContext) ==
    IF i > Len(args) THEN "ok"
    ELSE LET t == args[i]
             us == haveUnderscores(args)
         IN  IF t = ""
             THEN checkRedeemerArgs(args, i + 1, haveRedeemer, haveScriptContext)
             ELSE IF t = "Redeemer"
             THEN IF us /\ i # 1 THEN "TypeError"
                  ELSE IF haveRedeemer THEN "TypeError"
                  ELSE IF haveScriptContext THEN "TypeError"
                  ELSE checkRedeemerArgs(args, i + 1, TRUE, haveScriptContext)
             ELSE IF t = "ScriptContext"
             THEN IF us /\ i # 2 THEN "TypeError"
                  ELSE IF haveScriptContext THEN "TypeError"
                  ELSE checkRedeemerArgs(args, i + 1, haveRedeemer, TRUE)
             ELSE "TypeError"

\* the check of main's return types that ends evalTypesInternal
checkRetTypes_anyType(rets) ==
    IF Len(rets) # 1 THEN "TypeError" ELSE "ok"

checkRetTypes(rets) ==
    IF Len(rets) # 1 THEN "TypeError"
    ELSE IF ~BoolIsBaseOf(rets[1]) THEN "TypeError"
    ELSE "ok"

\* TestingProgram.evalTypes: main can have any arg types, and any return type
checkTestingRetTypes_atMostTwo(rets) ==
    IF Len(rets) > 2 THEN "TypeError" ELSE "ok"

checkTestingRetTypes(rets) ==
    IF Len(rets) > 1 THEN "TypeError" ELSE "ok"

\* evalTypesInternal of a program with the given arity: [result, warnings]
evalTypesInternal(p, args, rets) ==
    LET arity == IF p = "Spending" THEN DatumRedeemerArity ELSE RedeemerArity
        count == checkArgCount(args, arity)
        loop  == IF p = "Spending"
                 THEN checkDatumRedeemerArgs(args, 1, FALSE, FALSE, FALSE)
                 ELSE checkRedeemerArgs(args, 1, FALSE, FALSE)
        w     == IF count = "deprecated" THEN 1 ELSE 0
    IN  IF count \in {"TypeError", "AssertionError"} THEN [result |-> count, warnings |-> 0]
        ELSE IF loop # "ok" THEN [result |-> loop, warnings |-> w]
        ELSE [result |-> checkRetTypes(rets), warnings |-> w]

\* evalTypes of the program Program.new built for the purpose
evalTypes(p, args, rets) ==
    IF p = "Testing"
    THEN [result |-> checkTestingRetTypes(rets), warnings |-> 0]
    ELSE evalTypesInternal(p, args, rets)

(***************************************************************************)
(* Entry-point lowering: toIR of the purpose-specific programs             *)
(***************************************************************************)
\* this.mainPath
mainPath == "__module__main__main"

\* while (outerArgs.length < n) outerArgs.push(new IR("_"))
RECURSIVE padOuterArgs(_, _)
padOuterArgs(outer, n) ==
    IF Len(outer) < n THEN padOuterArgs(outer \o <<"_">>, n) ELSE outer

\* DatumRedeemerProgram.toIR: the loop over argTypeNames from i on
RECURSIVE datumRedeemerOuterArgs(_, _, _)
datumRedeemerOuterArgs(args, i, outer) ==
    IF i > Len(args) THEN outer
    ELSE LET t == args[i]
         IN  IF t = "Datum" THEN datumRedeemerOuterArgs(args, i + 1, outer \o <<"datum">>)
             ELSE IF t = "Redeemer"
             THEN datumRedeemerOuterArgs(args, i + 1,
                     (IF Len(outer) = 0 THEN <<"_">> ELSE outer) \o <<"redeemer">>)
             ELSE IF t = "ScriptContext"
             THEN datumRedeemerOuterArgs(args, i + 1, padOuterArgs(outer, 2) \o <<"ctx">>)
             ELSE IF t = "" THEN datumRedeemerOuterArgs(args, i + 1, outer \o <<"_">>)
             ELSE <<"unexpected">>

\* RedeemerProgram.toIR: the loop over argTypeNames from i on
RECURSIVE redeemerOuterArgs_unpadded(_, _, _)
redeemerOuterArgs_unpadded(args, i, outer) ==
    IF i > Len(args) THEN outer
    ELSE LET t == args[i]
         IN  IF t = "Redeemer" THEN redeemerOuterArgs_unpadded(args, i + 1, outer \o <<"redeemer">>)
             ELSE IF t = "ScriptContext"
             THEN redeemerOuterArgs_unpadded(args, i + 1, outer \o <<"ctx">>)
             ELSE IF t = "" THEN redeemerOuterArgs_unpadded(args, i + 1, outer \o <<"_">>)
             ELSE <<"unexpected">>

RECURSIVE redeemerOuterArgs(_, _, _)
redeemerOuterArgs(args, i, outer) ==
    IF i > Len(args) THEN outer
    ELSE LET t == args[i]
         IN  IF t = "Redeemer" THEN redeemerOuterArgs(args, i + 1, outer \o <<"redeemer">>)
             ELSE IF t = "ScriptContext"
             THEN redeemerOuterArgs(args, i + 1,
                     (IF Len(outer) = 0 THEN <<"_">> ELSE outer) \o <<"ctx">>)
             ELSE IF t = "" THEN redeemerOuterArgs(args, i + 1, outer \o <<"_">>)
             ELSE <<"unexpected">>

\* the inner argument pushed for an argument of type name t
innerArgOf(t) ==
    IF t = "Datum" THEN "datum"
    ELSE IF t = "Redeemer" THEN "redeemer"
    ELSE IF t = "ScriptContext" THEN "ctx"
    ELSE IF t = "" THEN "0"
    ELSE "unexpected"

\* TestingProgram.toIR: arg${i}, unBoolData(arg${i}) for a Bool argument
testingInnerArg(t, i) ==
    IF BoolIsBaseOf(t) THEN "__helios__common__unBoolData(arg" \o ToString(i - 1) \o ")"
    ELSE "arg" \o ToString(i - 1)

\* toIR: [outer, inner] of the wrapper around the call of main
toIR(p, args) ==
    IF p = "Testing"
    THEN [outer |-> [i \in 1..Len(args) |-> "arg" \o ToString(i - 1)],
          inner |-> [i \in 1..Len(args) |-> testingInnerArg(args[i], i)]]
    ELSE IF p = "Spending"
    THEN [outer |-> padOuterArgs(datumRedeemerOuterArgs(args, 1, <<>>), DatumRedeemerArity),
          inner |-> [i \in 1..Len(args) |-> innerArgOf(args[i])]]
    ELSE [outer |-> padOuterArgs(redeemerOuterArgs(args, 1, <<>>), RedeemerArity),
          inner |-> [i \in 1..Len(args) |-> innerArgOf(args[i])]]

\* no import graph under consideration
IdleDeps ==
    /\ candidates = {}
    /\ statements = [m \in {ModuleIds[k] : k \in 1..Len(ModuleIds)} |-> <<>>]
    /\ hasPost = FALSE
    /\ pc = "idle"
    /\ mainImports = <<>>
    /\ postImports = <<>>
    /\ modules = <<>>
    /\ err = NoError
    /\ mainWalk = NoWalk
    /\ postWalk = NoWalk

\* a parsed program of any purpose whose main has any signature
InitEntry ==
    /\ IdleDeps
    /\ purpose \in Purposes
    /\ argTypeNames \in SeqsUpTo(ArgTypeNames, MaxArgs)
    /\ retTypes \in SeqsUpTo(RetTypeNames, MaxRets)
    /\ epc = "parsed"
    /\ evalResult = "pending"
    /\ warnings = 0
    /\ outerArgs = <<>>
    /\ innerArgs = <<>>
    /\ entryCall = <<>>
    /\ IdleDefs
    /\ IdleParams
    /\ IdleTypes

\* Program.new: const topScope = program.evalTypes()
EvalTypes ==
    /\ epc = "parsed"
    /\ LET r == evalTypes(purpose, argTypeNames, retTypes)
       IN  /\ evalResult' = r.result
           /\ warnings' = warnings + r.warnings
           /\ epc' = IF r.result = "ok" THEN "checked" ELSE "rejected"
    /\ UNCHANGED <<purpose, argTypeNames, retTypes, outerArgs, innerArgs, entryCall, depsVars, defsVars, paramVars, typeVars>>

\* program.toIR(): only a program Program.new returned can be lowered
ToIR ==
    /\ epc = "checked"
    /\ LET r == toIR(purpose, argTypeNames)
       IN  /\ outerArgs' = r.outer
           /\ innerArgs' = r.inner
           /\ entryCall' = <<mainPath, mainPath>>
    /\ epc' = "lowered"
    /\ UNCHANGED <<purpose, argTypeNames, retTypes, evalResult, warnings, depsVars, defsVars, paramVars, typeVars>>

NextEntry == EvalTypes \/ ToIR

SpecEntry == InitEntry /\ [][NextEntry]_vars

(***************************************************************************)
(* The definition graph: injectMutualRecursions, injectTypeParameters and  *)
(* fetchDefinitions                                                        *)
(*                                                                         *)
(* A name is a sequence of words, the pieces of the name between its "@"   *)
(* marks; a word is a sequence of the "__"-led parts of a path, so that    *)
(* startsWith on the text is the prefix relation on the first word.  An IR *)
(* fragment is the sequence of its names and punctuation marks, in the     *)
(* order of the text.                                                      *)
(***************************************************************************)
Plain(word) == <<word>>

Mangled(prefix, holes, suffix) == <<prefix>> \o holes \o <<suffix>>

HeliosPrefix == "__helios"

IntPath == <<"__helios", "__int">>

FooPath == <<"__module__m", "__Foo">>

ListPath == <<"__helios", "__list">>

\* the punctuation the rewriting writes: "(", ")", ") -> {" and "}"
LP == Plain(<<"(">>)

RP == Plain(<<")">>)

ARROW == Plain(<<") -> {">>)

RB == Plain(<<"}">>)

Punctuation == {LP, RP, ARROW, RB}

\* the keys the statements of the program put into the map; the entry
\* function is the last statement that is lowered
FooGet == Plain(FooPath \o <<"__get">>)

GPath == Plain(<<"__module__m", "__g">>)

MainKey == Plain(<<"__module__m", "__main">>)

\* a primitive of the target VM
CoreHeadList == Plain(<<"__core", "__headList">>)

CommonFold == Plain(<<"__helios", "__common", "__fold">>)

HoleName(i) == <<"__T" \o ToString(i)>>

FoldTemplate == Mangled(ListPath, <<HoleName(0)>>, <<"__fold">>)

MapTemplate == Mangled(ListPath, <<HoleName(0)>>, <<"__map">>)

LengthTemplate == Mangled(ListPath, <<HoleName(0)>>, <<"__length">>)

ListOf(path, member) == Mangled(ListPath, <<path>>, <<member>>)

\* the raw functions fetchRawFunctions finds: a plain builtin and three
\* templates, the second written in terms of the first, the third in terms
\* of itself
Builtins ==
    << [key |-> CommonFold,     ir |-> <<CoreHeadList>>],
       [key |-> FoldTemplate,   ir |-> <<CommonFold>>],
       [key |-> MapTemplate,    ir |-> <<FoldTemplate, CoreHeadList>>],
       [key |-> LengthTemplate, ir |-> <<CoreHeadList, LengthTemplate>>] >>

\* the names a statement's IR can mention: instantiations of the templates
\* at a builtin and at a user type, an instantiation no template exists
\* for, and the entry function
RefNames ==
    { ListOf(IntPath, "__fold"), ListOf(FooPath, "__fold"),
      ListOf(IntPath, "__map"), ListOf(FooPath, "__map"),
      ListOf(IntPath, "__zip"), ListOf(FooPath, "__length"), MainKey }

KeyOrders ==
    { <<MainKey>>, <<FooGet, MainKey>>, <<GPath, MainKey>>,
      <<FooGet, GPath, MainKey>>, <<GPath, FooGet, MainKey>> }

KeysOf(entries) == {entries[i].key : i \in 1..Len(entries)}

HasKey(entries, name) == name \in KeysOf(entries)

\* Map.get: the fragment stored under a key
Get(entries, name) ==
    LET i == CHOOSE i \in 1..Len(entries) : entries[i].key = name
    IN  entries[i].ir

\* what the regular expression of injectTypeParameters matches: a name
\* with at least two "@"
IsMangled(name) == Len(name) >= 3

\* IR.replace(/\bk\b/gm, text): every occurrence of the name k
RECURSIVE replaceName(_, _, _)
replaceName(ir, k, text) ==
    IF ir = <<>> THEN <<>>
    ELSE (IF Head(ir) = k THEN text ELSE <<Head(ir)>>)
             \o replaceName(Tail(ir), k, text)

\* IR.replace(/\b__Ti\b/, newStr): the hole word inside each name
replaceHole(ir, i, newStr) ==
    [t \in 1..Len(ir) |->
        [w \in 1..Len(ir[t]) |->
            IF ir[t][w] = HoleName(i) THEN newStr ELSE ir[t][w]]]

RECURSIVE replaceHoles(_, _, _)
replaceHoles(ir, parts, i) ==
    IF i > Len(parts) THEN ir
    ELSE replaceHoles(replaceHole(ir, i - 1, parts[i]), parts, i + 1)

\* a rewriting that passes and accepts the key itself only
RECURSIVE injectMutualRecursionsFrom_self(_, _, _)
injectMutualRecursionsFrom_self(map, keys, i) ==
    IF i = 0 THEN map
    ELSE LET k == keys[i]
             replaced ==
                 [x \in 1..Len(map) |->
                     [map[x] EXCEPT !.ir = replaceName(@, k, <<k, LP, k, RP>>)]]
             wrapped ==
                 [replaced EXCEPT ![i].ir = <<LP, k, ARROW>> \o @ \o <<RB>>]
         IN  injectMutualRecursionsFrom_self(wrapped, keys, i - 1)

\* the loop body of injectMutualRecursions for keys[i], then the rest of
\* the loop, downwards
RECURSIVE injectMutualRecursionsFrom(_, _, _)
injectMutualRecursionsFrom(map, keys, i) ==
    IF i = 0 THEN map
    ELSE LET k == keys[i]
             others == SubSeq(keys, i, Len(keys))
             replaced ==
                 [x \in 1..Len(map) |->
                     [map[x] EXCEPT !.ir =
                         replaceName(@, k, <<k, LP>> \o others \o <<RP>>)]]
             wrapped ==
                 [replaced EXCEPT ![i].ir =
                     <<LP>> \o others \o <<ARROW>> \o @ \o <<RB>>]
         IN  injectMutualRecursionsFrom(wrapped, keys, i - 1)

injectMutualRecursions(map) ==
    injectMutualRecursionsFrom(map, [i \in 1..Len(map) |-> map[i].key], Len(map))

\* name.split("@") without its first and last part
PartsOf(name) == SubSeq(name, 2, Len(name) - 1)

genericName(name) ==
    Mangled(name[1], [i \in 1..Len(name) - 2 |-> HoleName(i - 1)], name[Len(name)])

\* the fragment of a new instantiation
instantiate(builtins, map, name) ==
    LET generic == genericName(name)
        ir == IF HasKey(builtins, generic) THEN Get(builtins, generic)
              ELSE Get(map, generic)
    IN  replaceHoles(ir, PartsOf(name), 1)

hasTemplate(builtins, map, name) ==
    HasKey(builtins, genericName(name)) \/ HasKey(map, genericName(name))

\* add without the look into the added map, as long as the added map holds
\* fewer entries than there are names to instantiate
add_unrecorded(builtins, map, st, name) ==
    IF st.err # "none" THEN st
    ELSE IF HasKey(builtins, name) \/ HasKey(map, name)
                \/ Len(st.added) >= Cardinality(RefNames)
    THEN st
    ELSE IF ~hasTemplate(builtins, map, name)
    THEN [st EXCEPT !.err = "Error"]
    ELSE [st EXCEPT !.added =
             Append(@, [key |-> name, ir |-> instantiate(builtins, map, name)])]

\* add without the search of the new fragment
add_shallow(builtins, map, st, name) ==
    IF st.err # "none" THEN st
    ELSE IF HasKey(builtins, name) \/ HasKey(map, name) \/ HasKey(st.added, name)
    THEN st
    ELSE IF ~hasTemplate(builtins, map, name)
    THEN [st EXCEPT !.err = "Error"]
    ELSE [st EXCEPT !.added =
             Append(@, [key |-> name, ir |-> instantiate(builtins, map, name)])]

RECURSIVE add(_, _, _, _)
RECURSIVE search(_, _, _, _, _)
\* const add = (name) => ...; st is the added map and the error thrown
add(builtins, map, st, name) ==
    IF st.err # "none" THEN st
    ELSE IF HasKey(builtins, name) \/ HasKey(map, name) \/ HasKey(st.added, name)
    THEN st
    ELSE IF ~hasTemplate(builtins, map, name)
    THEN [st EXCEPT !.err = "Error"]
    ELSE LET ir == instantiate(builtins, map, name)
         IN  search(builtins, map,
                    [st EXCEPT !.added = Append(@, [key |-> name, ir |-> ir])],
                    ir, 1)

\* ir.search(re, add): add for every match, in the order of the text
search(builtins, map, st, ir, i) ==
    IF i > Len(ir) THEN st
    ELSE search(builtins, map,
                IF IsMangled(ir[i]) THEN add(builtins, map, st, ir[i]) ELSE st,
                ir, i + 1)

\* for (let [k, v] of map) v.search(re, add)
RECURSIVE searchMap(_, _, _, _)
searchMap(builtins, map, st, x) ==
    IF x > Len(map) THEN st
    ELSE searchMap(builtins, map, search(builtins, map, st, map[x].ir, 1), x + 1)

IsPrefix(p, w) == Len(p) <= Len(w) /\ SubSeq(w, 1, Len(p)) = p

\* key.startsWith(prefix), the prefix being a path without "@"
startsWith(key, prefix) == IsPrefix(prefix, key[1])

MaxOf(S) == CHOOSE x \in S : \A y \in S : x >= y

\* the index (counted from 1) of the last entry findLast accepts, 0 for -1
findLast(entries, prefix) ==
    MaxOf({0} \cup {i \in 1..Len(entries) :
                     \/ startsWith(entries[i].key, prefix)
                     \/ startsWith(entries[i].key, <<HeliosPrefix>>)})

\* the last loop of injectTypeParameters, from addedEntries[i] downwards
RECURSIVE insertAdded(_, _, _)
insertAdded(entries, addedEntries, i) ==
    IF i = 0 THEN entries
    ELSE LET name == addedEntries[i].key
             parts == PartsOf(name)
             j == MaxOf({0} \cup {findLast(entries, parts[p]) : p \in 1..Len(parts)})
         IN  insertAdded(SubSeq(entries, 1, j) \o <<addedEntries[i]>>
                             \o SubSeq(entries, j + 1, Len(entries)),
                         addedEntries, i - 1)

injectTypeParameters(builtins, map) ==
    LET st == searchMap(builtins, map, [added |-> <<>>, err |-> "none"], 1)
    IN  IF st.err # "none" THEN [err |-> st.err, entries |-> <<>>]
        ELSE [err |-> "none",
              entries |-> insertAdded(builtins \o map, st.added, Len(st.added))]

\* the bodies of up to three statements, MaxRefs names between them
BodiesOf(n, b1, b2, b3) ==
    [i \in 1..n |-> IF i = 1 THEN b1 ELSE IF i = 2 THEN b2 ELSE b3]

\* fetchDefinitions is called on a program Program.new returned
InitDefs ==
    /\ IdleDeps
    /\ IdleEntry
    /\ IdleParams
    /\ IdleTypes
    /\ defs = <<>>
    /\ graph = <<>>
    /\ dpc = "called"

\* fetchDefinitions: let map = this.statementsToIR(parameters, endCond),
\* one fragment per key, in the order of the statements up to main
StatementsToIR ==
    /\ dpc = "called"
    /\ \E keys \in KeyOrders :
        \E b1 \in SeqsUpTo(RefNames, MaxRefs) :
        \E b2 \in SeqsUpTo(RefNames, IF Len(keys) >= 2 THEN MaxRefs - Len(b1) ELSE 0) :
        \E b3 \in SeqsUpTo(RefNames, IF Len(keys) >= 3 THEN MaxRefs - Len(b1) - Len(b2) ELSE 0) :
            defs' = [i \in 1..Len(keys) |->
                        [key |-> keys[i], ir |-> BodiesOf(Len(keys), b1, b2, b3)[i]]]
    /\ dpc' = "lowered"
    /\ UNCHANGED <<graph, depsVars, entryVars, paramVars, typeVars>>

\* fetchDefinitions: Program.injectMutualRecursions(map)
InjectMutualRecursions ==
    /\ dpc = "lowered"
    /\ defs' = injectMutualRecursions(defs)
    /\ dpc' = "rewritten"
    /\ UNCHANGED <<graph, depsVars, entryVars, paramVars, typeVars>>

\* fetchDefinitions: return Program.injectTypeParameters(builtins, map)
InjectTypeParameters ==
    /\ dpc = "rewritten"
    /\ LET r == injectTypeParameters(Builtins, defs)
       IN  /\ graph' = r.entries
           /\ dpc' = IF r.err = "none" THEN "returned" ELSE "thrown"
    /\ UNCHANGED <<defs, depsVars, entryVars, paramVars, typeVars>>

NextDefs == StatementsToIR \/ InjectMutualRecursions \/ InjectTypeParameters

SpecDefs == InitDefs /\ [][NextDefs]_vars

\* fetchDefinitions: let map = this.statementsToIR(parameters, endCond), the
\* fragments referring to the statements of the table only
StatementsReferToEachOther ==
    /\ dpc = "called"
    /\ \E keys \in KeyOrders :
        \E b1 \in SeqsUpTo(KeysOf([i \in 1..Len(keys) |-> [key |-> keys[i]]]), MaxRefs) :
        \E b2 \in SeqsUpTo(KeysOf([i \in 1..Len(keys) |-> [key |-> keys[i]]]),
                           IF Len(keys) >= 2 THEN MaxRefs - Len(b1) ELSE 0) :
        \E b3 \in SeqsUpTo(KeysOf([i \in 1..Len(keys) |-> [key |-> keys[i]]]),
                           IF Len(keys) >= 3 THEN MaxRefs - Len(b1) - Len(b2) ELSE 0) :
            defs' = [i \in 1..Len(keys) |->
                        [key |-> keys[i], ir |-> BodiesOf(Len(keys), b1, b2, b3)[i]]]
    /\ dpc' = "lowered"
    /\ UNCHANGED <<graph, depsVars, entryVars, paramVars, typeVars>>

NextRecursion == StatementsReferToEachOther \/ InjectMutualRecursions

SpecRecursion == InitDefs /\ [][NextRecursion]_vars

(***************************************************************************)
(* Parameters: statementsToIR with a parameter list, evalParam, the        *)
(* parameters getter and changeParamSafe                                   *)
(***************************************************************************)
ParamNames == {"P", "Q", "R"}

ConstTypes == {"Bool", "Int"}

ParamValues == {0, 1}

NotCached == -1

ConstStatement(name, mod, type) ==
    [kind |-> "const", name |-> name, mod |-> mod, type |-> type, value |-> 0]

FuncStatement(name, mod) ==
    [kind |-> "func", name |-> name, mod |-> mod, type |-> "Func", value |-> 0]

\* Module constructor: the base path of the statements of a module; the
\* post-main module carries the name of the main module
BasePath(mod) == IF mod = "import" THEN "__module__a" ELSE "__module__m"

\* Statement.path
PathOf(s) == <<BasePath(s.mod), s.name>>

\* the statements of the imported module
ImportedStatements ==
    { <<>>, <<ConstStatement("P", "import", "Int")>>, <<FuncStatement("main", "import")>> }

\* the constants of the main module, before main
MainConstants ==
    { <<>>, <<ConstStatement("Q", "main", "Int")>> }
    \cup { <<ConstStatement("P", "main", t)>> : t \in ConstTypes }
    \cup { <<ConstStatement("P", "main", t), ConstStatement("Q", "main", "Int")>> :
               t \in ConstTypes }
    \cup { <<ConstStatement("Q", "main", "Int"), ConstStatement("P", "main", t)>> :
               t \in ConstTypes }

\* the statements after main, of names the main module does not declare
PostStatements(mainConsts) ==
    { <<>> } \cup
    { <<ConstStatement(n, "post", "Int")>> :
          n \in {"R"} \ {mainConsts[k].name : k \in 1..Len(mainConsts)} }

\* Program.mainStatements
mainStatements(prog) == SelectSeq(prog, LAMBDA s : s.mod = "main")

\* Program.mainAndPostStatements
mainAndPostStatements(prog) == SelectSeq(prog, LAMBDA s : s.mod \in {"main", "post"})

\* Program.allStatements: the second component, isImport
isImport(s) == s.mod = "import"

\* parameters.findIndex(p => name == p), counted from 1, 0 for -1
findIndex(parameters, name) ==
    IF InSeq(name, parameters)
    THEN CHOOSE i \in 1..Len(parameters) :
             parameters[i] = name /\ \A j \in 1..(i - 1) : parameters[j] # name
    ELSE 0

\* parameterStatements[i]: the position in the program of the last constant
\* of the main module whose name is found at i, 0 for null
parameterStatement(prog, parameters, i) ==
    MaxOf({0} \cup {k \in 1..Len(prog) :
                       /\ prog[k].mod = "main"
                       /\ prog[k].kind = "const"
                       /\ findIndex(parameters, prog[k].name) = i})

\* the IR of a placeholder and the IR a statement makes of itself
ParamIR(i, type) == [kind |-> "param", index |-> i - 1, unBoolData |-> BoolIsBaseOf(type)]

OwnIR(k) == [kind |-> "own", index |-> k, unBoolData |-> FALSE]

\* Map.set
MapSet(map, key, ir) ==
    IF \E x \in 1..Len(map) : map[x].key = key
    THEN [x \in 1..Len(map) |-> IF map[x].key = key THEN [key |-> key, ir |-> ir] ELSE map[x]]
    ELSE Append(map, [key |-> key, ir |-> ir])

\* the end conditions of wrapEntryPoint and of evalParam
MainEndCond == [kind |-> "main", name |-> "main"]

ParamEndCond(name) == [kind |-> "const", name |-> name]

endCondHolds(endCond, s) ==
    IF endCond.kind = "main" THEN s.name = "main"
    ELSE s.kind = "const" /\ s.name = endCond.name /\ ~isImport(s)

\* the loop of statementsToIR over allStatements, from statement k on; found
\* is the position of the statement the end condition held for, 0 for none
RECURSIVE lowerStatements(_, _, _, _, _)
lowerStatements(prog, parameters, endCond, k, map) ==
    IF k > Len(prog) THEN [map |-> map, found |-> 0]
    ELSE LET s == prog[k]
             i == IF Len(parameters) > 0 /\ s.kind = "const"
                  THEN (IF \E x \in 1..Len(parameters) :
                               parameterStatement(prog, parameters, x) = k
                        THEN CHOOSE x \in 1..Len(parameters) :
                                 parameterStatement(prog, parameters, x) = k
                        ELSE 0)
                  ELSE 0
         IN  IF i # 0
             THEN lowerStatements(prog, parameters, endCond, k + 1,
                                  MapSet(map, PathOf(s), ParamIR(i, s.type)))
             ELSE IF endCondHolds(endCond, s)
             THEN [map |-> MapSet(map, PathOf(s), OwnIR(k)), found |-> k]
             ELSE lowerStatements(prog, parameters, endCond, k + 1,
                                  MapSet(map, PathOf(s), OwnIR(k)))

\* statementsToIR keeping the IR of the constant for a parameter
statementsToIR_inlined(prog, parameters, endCond) ==
    IF \E i \in 1..Len(parameters) : parameterStatement(prog, parameters, i) = 0
    THEN [err |-> "Error", map |-> <<>>, found |-> 0]
    ELSE LET r == lowerStatements(prog, <<>>, endCond, 1, <<>>)
         IN  [err |-> "none", map |-> r.map, found |-> r.found]

statementsToIR(prog, parameters, endCond) ==
    IF \E i \in 1..Len(parameters) : parameterStatement(prog, parameters, i) = 0
    THEN [err |-> "Error", map |-> <<>>, found |-> 0]
    ELSE LET r == lowerStatements(prog, parameters, endCond, 1, <<>>)
         IN  [err |-> "none", map |-> r.map, found |-> r.found]

\* evalParam: the value of the constant the end condition held for
evalParam(prog, name) ==
    LET r == statementsToIR(prog, <<>>, ParamEndCond(name))
    IN  IF r.found = 0 THEN [err |-> "Error", value |-> 0]
        ELSE [err |-> "none", value |-> prog[r.found].value]

\* Program.paramTypes: the names of the constants of main and post
paramTypes(prog) ==
    {mainAndPostStatements(prog)[k].name :
        k \in {x \in 1..Len(mainAndPostStatements(prog)) :
                  mainAndPostStatements(prog)[x].kind = "const"}}

\* a program Program.new returned, nothing cached, nothing requested
InitParams ==
    /\ IdleDeps
    /\ IdleEntry
    /\ IdleDefs
    /\ IdleTypes
    /\ \E imp \in ImportedStatements : \E consts \in MainConstants :
       \E post \in PostStatements(consts) :
           program = imp \o consts \o <<FuncStatement("main", "main")>> \o post
    /\ parameterCache = [n \in ParamNames |-> NotCached]
    /\ lastCall = [op |-> "none", args |-> <<>>, err |-> "none", map |-> <<>>, value |-> 0]

\* program.toIR(parameters): wrapEntryPoint asks statementsToIR for the
\* definitions up to main
RequestIR ==
    \E parameters \in SeqsUpTo(ParamNames, MaxParams) :
        /\ LET r == statementsToIR(program, parameters, MainEndCond)
           IN  lastCall' = [op |-> "toIR", args |-> parameters, err |-> r.err,
                            map |-> r.map, value |-> 0]
        /\ UNCHANGED <<program, parameterCache, depsVars, entryVars, defsVars, typeVars>>

\* program.evalParam(name)
EvalParam ==
    \E name \in ParamNames :
        /\ LET r == evalParam(program, name)
           IN  lastCall' = [op |-> "evalParam", args |-> <<name>>, err |-> r.err,
                            map |-> <<>>, value |-> r.value]
        /\ UNCHANGED <<program, parameterCache, depsVars, entryVars, defsVars, typeVars>>

\* program.parameters[name]
GetParameter ==
    \E name \in ParamNames :
        IF parameterCache[name] # NotCached
        THEN /\ lastCall' = [op |-> "parameters", args |-> <<name>>, err |-> "none",
                             map |-> <<>>, value |-> parameterCache[name]]
             /\ UNCHANGED <<program, parameterCache, depsVars, entryVars, defsVars, typeVars>>
        ELSE IF name \notin paramTypes(program)
        THEN /\ lastCall' = [op |-> "parameters", args |-> <<name>>, err |-> "Error",
                             map |-> <<>>, value |-> 0]
             /\ UNCHANGED <<program, parameterCache, depsVars, entryVars, defsVars, typeVars>>
        ELSE LET r == evalParam(program, name)
             IN  /\ lastCall' = [op |-> "parameters", args |-> <<name>>, err |-> r.err,
                                 map |-> <<>>, value |-> r.value]
                 /\ parameterCache' = IF r.err = "none"
                                      THEN [parameterCache EXCEPT ![name] = r.value]
                                      ELSE parameterCache
                 /\ UNCHANGED <<program, depsVars, entryVars, defsVars, typeVars>>

\* program.changeParamSafe(name, data)
ChangeParamSafe ==
    \E name \in ParamNames : \E data \in ParamValues :
        LET hits == {k \in 1..Len(program) :
                        /\ program[k].mod \in {"main", "post"}
                        /\ program[k].kind = "const"
                        /\ program[k].name = name}
        IN  IF hits = {}
            THEN /\ lastCall' = [op |-> "changeParamSafe", args |-> <<name>>,
                                 err |-> "ReferenceError", map |-> <<>>, value |-> 0]
                 /\ UNCHANGED <<program, parameterCache, depsVars, entryVars, defsVars, typeVars>>
            ELSE /\ program' = [program EXCEPT
                                   ![CHOOSE k \in hits : \A j \in hits : k <= j].value = data]
                 /\ lastCall' = [op |-> "changeParamSafe", args |-> <<name>>,
                                 err |-> "none", map |-> <<>>, value |-> data]
                 /\ UNCHANGED <<parameterCache, depsVars, entryVars, defsVars, typeVars>>

\* program.parameters = {name: value}: the value is cached and written to
\* the constant through changeParamSafe
SetParameters ==
    \E name \in ParamNames : \E data \in ParamValues :
        IF name \notin paramTypes(program)
        THEN /\ lastCall' = [op |-> "setParameters", args |-> <<name>>, err |-> "TypeError",
                             map |-> <<>>, value |-> 0]
             /\ UNCHANGED <<program, parameterCache, depsVars, entryVars, defsVars, typeVars>>
        ELSE LET hits == {k \in 1..Len(program) :
                             /\ program[k].mod \in {"main", "post"}
                             /\ program[k].kind = "const"
                             /\ program[k].name = name}
             IN  /\ parameterCache' = [parameterCache EXCEPT ![name] = data]
                 /\ program' = [program EXCEPT
                                   ![CHOOSE k \in hits : \A j \in hits : k <= j].value = data]
                 /\ lastCall' = [op |-> "setParameters", args |-> <<name>>, err |-> "none",
                                 map |-> <<>>, value |-> data]
                 /\ UNCHANGED <<depsVars, entryVars, defsVars, typeVars>>

\* IR requested from a program
NextLower == RequestIR

SpecLower == InitParams /\ [][NextLower]_vars

\* the parameter interface of a program
NextParams == EvalParam \/ GetParameter \/ ChangeParamSafe \/ SetParameters

SpecParams == InitParams /\ [][NextParams]_vars

(***************************************************************************)
(* The type model: Type.isBaseOf and Type.same                             *)
(***************************************************************************)
\* ByteArrayType: constructor(size = null), the unsized byte array
NoSize == 0

\* ByteArrayType: size 32, the result of hashing
HashSize == 32

\* ScriptContextType: constructor(purpose), a number; -1 where the class has none
NoPurpose == -1

ScriptPurposes == {0, 1}

\* a type: the class of the object and its private fields (#itemType,
\* #keyType and #valueType, #someType in items; #size; #purpose; the path of
\* the statement behind a StatementType)
TypeOf(class, items, size, ctxPurpose, path) ==
    [class |-> class, items |-> items, size |-> size, ctxPurpose |-> ctxPurpose, path |-> path]

IntType == TypeOf("IntType", <<>>, NoSize, NoPurpose, <<>>)
BoolType == TypeOf("BoolType", <<>>, NoSize, NoPurpose, <<>>)
ByteArrayType(size) == TypeOf("ByteArrayType", <<>>, size, NoPurpose, <<>>)
ListType(itemType) == TypeOf("ListType", <<itemType>>, NoSize, NoPurpose, <<>>)
MapType(keyType, valueType) == TypeOf("MapType", <<keyType, valueType>>, NoSize, NoPurpose, <<>>)
OptionType(someType) == TypeOf("OptionType", <<someType>>, NoSize, NoPurpose, <<>>)
OptionSomeType(someType) == TypeOf("OptionSomeType", <<someType>>, NoSize, NoPurpose, <<>>)
OptionNoneType(someType) == TypeOf("OptionNoneType", <<someType>>, NoSize, NoPurpose, <<>>)
ScriptContextType(ctxPurpose) ==
    TypeOf("ScriptContextType", <<>>, NoSize, ctxPurpose, <<>>)
ScriptPurposeType == TypeOf("ScriptPurposeType", <<>>, NoSize, NoPurpose, <<>>)
MintingScriptPurposeType == TypeOf("MintingScriptPurposeType", <<>>, NoSize, NoPurpose, <<>>)
SpendingScriptPurposeType == TypeOf("SpendingScriptPurposeType", <<>>, NoSize, NoPurpose, <<>>)
RewardingScriptPurposeType == TypeOf("RewardingScriptPurposeType", <<>>, NoSize, NoPurpose, <<>>)
CertifyingScriptPurposeType == TypeOf("CertifyingScriptPurposeType", <<>>, NoSize, NoPurpose, <<>>)

\* a FuncType as the type of a value: the types of its unnamed arguments
\* (#argTypes) and #retTypes, in items
FuncTypeOf(args, rets) == TypeOf("FuncType", <<args, rets>>, NoSize, NoPurpose, <<>>)

\* Statement.#basePath, character by character
UserBasePath == <<"_", "_", "u", "s", "e", "r">>

PathSeparator == <<"_", "_">>

\* Statement.path of an enum statement: `${basePath}__${name}`
EnumPath(enumName) == UserBasePath \o PathSeparator \o enumName

\* a member path that leaves the path of the enum out
EnumMemberPath_flat(enumName, memberName) == UserBasePath \o PathSeparator \o memberName

\* EnumMember.path: `${parent.path}__${name}`
EnumMemberPath(enumName, memberName) == EnumPath(enumName) \o PathSeparator \o memberName

EnumStatementType(enumName) ==
    TypeOf("EnumStatementType", <<>>, NoSize, NoPurpose, EnumPath(enumName))

EnumMemberStatementType(enumName, memberName) ==
    TypeOf("EnumMemberStatementType", <<>>, NoSize, NoPurpose,
           EnumMemberPath(enumName, memberName))

\* type instanceof StatementType
IsStatementType(type) == type.class \in {"EnumStatementType", "EnumMemberStatementType"}

\* the names of the enums and of the members each of them declares
EnumNames == {<<"E">>, <<"E", "E">>}

MemberNames == {<<"A">>, <<"A", "B">>, <<"B">>}

\* the types items, keys and values are drawn from
ItemTypes == {IntType, BoolType, ByteArrayType(NoSize), ByteArrayType(HashSize)}

NestedTypes ==
    {ListType(OptionType(IntType)), ListType(OptionSomeType(IntType)),
     OptionType(ListType(IntType)), OptionSomeType(ListType(IntType)),
     OptionType(OptionType(IntType))}

BuiltinTypes ==
    ItemTypes
        \cup {ListType(t) : t \in ItemTypes}
        \cup {MapType(k, v) : k \in ItemTypes, v \in ItemTypes}
        \cup {OptionType(t) : t \in ItemTypes}
        \cup {OptionSomeType(t) : t \in ItemTypes}
        \cup {OptionNoneType(t) : t \in ItemTypes}
        \cup NestedTypes
        \cup {ScriptContextType(p) : p \in ScriptPurposes}
        \cup {ScriptPurposeType, MintingScriptPurposeType, SpendingScriptPurposeType,
              RewardingScriptPurposeType, CertifyingScriptPurposeType}

UserTypes ==
    {EnumStatementType(e) : e \in EnumNames}
        \cup {EnumMemberStatementType(e, m) : e \in EnumNames, m \in MemberNames}

Types == BuiltinTypes \cup UserTypes

\* DataType.isBaseOf: the two objects have the same prototype
DataType_isBaseOf(this, type) == this.class = type.class

\* this.isBaseOf(type), dispatched on the class of this
RECURSIVE isBaseOf(_, _)
isBaseOf(this, type) ==
    CASE this.class = "ListType" ->
             IF type.class = "ListType" THEN isBaseOf(this.items[1], type.items[1])
             ELSE FALSE
      [] this.class = "MapType" ->
             IF type.class = "MapType"
             THEN isBaseOf(this.items[1], type.items[1])
                      /\ isBaseOf(this.items[2], type.items[2])
             ELSE FALSE
      [] this.class = "OptionType" ->
             IF type.class = "OptionType" THEN isBaseOf(this.items[1], type.items[1])
             ELSE isBaseOf(OptionSomeType(this.items[1]), type)
                      \/ isBaseOf(OptionNoneType(this.items[1]), type)
      [] this.class = "OptionSomeType" ->
             IF type.class = "OptionSomeType" THEN isBaseOf(this.items[1], type.items[1])
             ELSE FALSE
      [] this.class = "OptionNoneType" ->
             IF type.class = "OptionNoneType" THEN isBaseOf(this.items[1], type.items[1])
             ELSE FALSE
      [] this.class = "ScriptPurposeType" ->
             DataType_isBaseOf(this, type)
                 \/ isBaseOf(MintingScriptPurposeType, type)
                 \/ isBaseOf(SpendingScriptPurposeType, type)
                 \/ isBaseOf(RewardingScriptPurposeType, type)
                 \/ isBaseOf(CertifyingScriptPurposeType, type)
      [] IsStatementType(this) ->
             IF IsStatementType(type) THEN IsPrefix(this.path, type.path)
             ELSE FALSE
      [] this.class = "FuncType" ->
             /\ type.class = "FuncType"
             /\ Len(this.items[1]) = Len(type.items[1])
             /\ \A i \in 1..Len(this.items[1]) : isBaseOf(type.items[1][i], this.items[1][i])
             /\ Len(this.items[2]) = Len(type.items[2])
             /\ \A i \in 1..Len(this.items[2]) : isBaseOf(this.items[2][i], type.items[2][i])
      [] OTHER -> DataType_isBaseOf(this, type)

\* Type.same(a, b)
same(a, b) == isBaseOf(a, b) /\ isBaseOf(b, a)

\* two types at hand, nothing asked of them yet
InitTypes ==
    /\ IdleDeps
    /\ IdleEntry
    /\ IdleDefs
    /\ IdleParams
    /\ typeMap = <<>>
    /\ \E a \in Types : \E b \in Types :
           typeCall = [op |-> "none", this |-> a, type |-> b, result |-> FALSE]

\* this.isBaseOf(type)
IsBaseOf ==
    /\ typeCall.op = "none"
    /\ typeCall' = [typeCall EXCEPT !.op = "isBaseOf",
                                     !.result = isBaseOf(typeCall.this, typeCall.type)]
    /\ UNCHANGED <<typeMap, depsVars, entryVars, defsVars, paramVars>>

\* Type.same(this, type)
Same ==
    /\ typeCall.op = "none"
    /\ typeCall' = [typeCall EXCEPT !.op = "same",
                                     !.result = same(typeCall.this, typeCall.type)]
    /\ UNCHANGED <<typeMap, depsVars, entryVars, defsVars, paramVars>>

NextTypes == IsBaseOf \/ Same

SpecTypes == InitTypes /\ [][NextTypes]_vars

(***************************************************************************)
(* FuncType.checkCall                                                      *)
(***************************************************************************)
\* the longest declared argument list
MaxFuncArgs == 2

\* new ArgType(name, type, optional); the name null is ""
ArgType(name, type, optional) == [name |-> name, type |-> type, optional |-> optional]

\* new FuncType(argTypes, retTypes)
FuncType(args, rets) == [argTypes |-> args, retTypes |-> rets]

\* the names of the declared arguments, by position
DeclaredArgNames == <<"a", "b", "c">>

\* the names a call passes arguments under; "x" is declared by no function
CallArgNames == {"a", "b", "x"}

\* the types of declared arguments and of the instances passed
CallTypes == {OptionType(IntType), OptionSomeType(IntType)}

RetTypeLists == {<<IntType>>, <<IntType, BoolType>>}

\* the argument lists of n arguments: all named (a function statement) or
\* none (a function type expression), the optional ones last
ArgTypeLists(n) ==
    {[i \in 1..n |-> ArgType(IF named THEN DeclaredArgNames[i] ELSE "",
                             types[i], i > nReq)] :
        named \in BOOLEAN, nReq \in 0..n, types \in [1..n -> CallTypes]}

\* the named arguments of a call: an object from names to instances
NamedArgs == UNION {[keys -> CallTypes] : keys \in SUBSET CallArgNames}

isNamed(at) == at.name # ""

isOptional(at) == at.optional

nArgs(fn) == Len(fn.argTypes)

nNonOptArgs(fn) == Cardinality({i \in 1..Len(fn.argTypes) : ~isOptional(fn.argTypes[i])})

\* an instance that accepts every type
isInstanceOf_any(instance, type) == TRUE

\* DataInstance.isInstanceOf(type); an instance is given by its #type
isInstanceOf(instance, type) == isBaseOf(type, instance)

\* this.#argTypes.findIndex(at => at.name == key), counted from 1, 0 for -1
namedIndex(fn, key) ==
    IF \E i \in 1..Len(fn.argTypes) : fn.argTypes[i].name = key
    THEN CHOOSE i \in 1..Len(fn.argTypes) :
             /\ fn.argTypes[i].name = key
             /\ \A j \in 1..(i - 1) : fn.argTypes[j].name # key
    ELSE 0

TypeError == [err |-> "TypeError", retTypes |-> <<>>]

\* FuncType.checkCall(site, posArgs, namedArgs)
checkCall(fn, posArgs, namedArgs) ==
    LET n == Len(posArgs)
        \* the first branch: some argument before nNonOptArgs is unnamed or
        \* its name is not among the named arguments
        notCovered ==
            /\ n < nNonOptArgs(fn)
            /\ \E i \in 1..nNonOptArgs(fn) :
                   \/ ~isNamed(fn.argTypes[i])
                   \/ fn.argTypes[i].name \notin DOMAIN namedArgs
        tooMany == ~(n < nNonOptArgs(fn)) /\ n > nArgs(fn)
        positionalMismatch ==
            \E i \in 1..n : ~isInstanceOf(posArgs[i], fn.argTypes[i].type)
        namedRejected ==
            \E key \in DOMAIN namedArgs :
                LET i == namedIndex(fn, key)
                IN  \/ i = 0
                    \/ i <= n
                    \/ ~isInstanceOf(namedArgs[key], fn.argTypes[i].type)
    IN  IF notCovered \/ tooMany THEN TypeError
        ELSE IF positionalMismatch THEN TypeError
        ELSE IF namedRejected THEN TypeError
        ELSE [err |-> "none", retTypes |-> fn.retTypes]

\* a function type and the arguments of a call, the call not yet checked
InitCalls ==
    /\ IdleDeps
    /\ IdleEntry
    /\ IdleDefs
    /\ IdleParams
    /\ typeMap = <<>>
    /\ \E n \in 0..MaxFuncArgs : \E args \in ArgTypeLists(n) : \E rets \in RetTypeLists :
       \E m \in 0..(MaxFuncArgs + 1) : \E pos \in [1..m -> CallTypes] :
       \E named \in NamedArgs :
           typeCall = [op |-> "none", fn |-> FuncType(args, rets), posArgs |-> pos,
                       namedArgs |-> named, result |-> [err |-> "none", retTypes |-> <<>>]]

\* FuncInstance.call: this.#type.checkCall(site, args, namedArgs)
CheckCall ==
    /\ typeCall.op = "none"
    /\ typeCall' = [typeCall EXCEPT
                       !.op = "checkCall",
                       !.result = checkCall(typeCall.fn, typeCall.posArgs, typeCall.namedArgs)]
    /\ UNCHANGED <<typeMap, depsVars, entryVars, defsVars, paramVars>>

NextCalls == CheckCall

SpecCalls == InitCalls /\ [][NextCalls]_vars

(***************************************************************************)
(* Inference of type parameters: infer, inferArgs, ParametricInstance.call *)
(***************************************************************************)
\* new ParamTypeRef(name); #name is kept in the path
ParamTypeRef(name) == TypeOf("ParamTypeRef", <<>>, NoSize, NoPurpose, <<name>>)

\* the argument null of infer
NullType == TypeOf("null", <<>>, NoSize, NoPurpose, <<>>)

TypeParamNames == {"T", "U"}

\* the types a generic function declares its arguments with
GenericTypes ==
    {ParamTypeRef(n) : n \in TypeParamNames}
        \cup {ListType(ParamTypeRef("T")), OptionType(ParamTypeRef("T")), IntType,
              FuncTypeOf(<<ParamTypeRef("T")>>, <<ParamTypeRef("U")>>)}

\* the types of the arguments a generic function is called with
InferredTypes ==
    {IntType, BoolType, OptionType(IntType), OptionSomeType(IntType), ListType(IntType),
     FuncTypeOf(<<IntType>>, <<BoolType>>), FuncTypeOf(<<IntType>>, <<BoolType, IntType>>)}

\* map.set(name, type)
TypeMapSet(map, name, type) ==
    [n \in DOMAIN map \cup {name} |-> IF n = name THEN type ELSE map[n]]

Inferred(map, type) == [map |-> map, type |-> type, err |-> "none"]

InferThrows(map, error) == [map |-> map, type |-> NullType, err |-> error]

\* a ParamTypeRef.infer that binds the parameter to every type it is given
inferParam_rebinding(map, name, type) ==
    IF type # NullType THEN Inferred(TypeMapSet(map, name, type), type)
    ELSE IF name \in DOMAIN map THEN Inferred(map, map[name])
    ELSE InferThrows(map, "Error")

\* ParamTypeRef.infer(site, map, type)
inferParam(map, name, type) ==
    IF name \notin DOMAIN map
    THEN IF type # NullType THEN Inferred(TypeMapSet(map, name, type), type)
         ELSE InferThrows(map, "Error")
    ELSE Inferred(map, map[name])

\* new C(this.#itemType.infer(...)) around the outcome r of the inner infer
Rewrap(class, r) ==
    IF r.err # "none" THEN r
    ELSE Inferred(r.map, TypeOf(class, <<r.type>>, NoSize, NoPurpose, <<>>))

RECURSIVE infer(_, _, _)
\* the map, the types inferred so far and the error thrown, after one more
\* infer has given r
inferNext(st, r) ==
    [map |-> r.map, err |-> r.err,
     types |-> IF r.err = "none" THEN Append(st.types, r.type) ELSE st.types]

\* types.map((t, i) => t.infer(site, map, against[i])) from i on, a missing
\* against[i] being no type
RECURSIVE inferEach(_, _, _, _)
inferEach(types, against, i, st) ==
    IF st.err # "none" \/ i > Len(types) THEN st
    ELSE inferEach(types, against, i + 1,
             inferNext(st, infer(st.map, types[i],
                                 IF i <= Len(against) THEN against[i] ELSE NullType)))

\* new FuncType(argTypes, retTypes) of the types inferred, the first n of
\* them being the arguments
newFuncType(n, all) ==
    IF all.err # "none" THEN InferThrows(all.map, all.err)
    ELSE Inferred(all.map, FuncTypeOf(SubSeq(all.types, 1, n),
                                     SubSeq(all.types, n + 1, Len(all.types))))

\* FuncType.infer once the counts are compared: the arguments, then the
\* return types, each against the type at its position, through one map
inferFuncType(map, this, against) ==
    newFuncType(Len(this.items[1]),
                inferEach(this.items[1] \o this.items[2], against, 1,
                          [map |-> map, err |-> "none", types |-> <<>>]))

\* this.infer(site, map, type), dispatched on the class of this
infer(map, this, type) ==
    CASE this.class = "ParamTypeRef" -> inferParam(map, this.path[1], type)
      [] this.class = "ListType" ->
             IF type = NullType THEN Rewrap("ListType", infer(map, this.items[1], NullType))
             ELSE IF type.class = "ListType"
             THEN Rewrap("ListType", infer(map, this.items[1], type.items[1]))
             ELSE InferThrows(map, "TypeError")
      [] this.class = "OptionType" ->
             IF type = NullType THEN Rewrap("OptionType", infer(map, this.items[1], NullType))
             ELSE IF type.class \in {"OptionType", "OptionSomeType", "OptionNoneType"}
             THEN Rewrap("OptionType", infer(map, this.items[1], type.items[1]))
             ELSE InferThrows(map, "TypeError")
      [] this.class = "FuncType" ->
             IF type = NullType THEN inferFuncType(map, this, <<>>)
             ELSE IF /\ type.class = "FuncType"
                     /\ Len(type.items[1]) = Len(this.items[1])
                     /\ Len(type.items[2]) # Len(this.items[2])
             THEN inferFuncType(map, this, type.items[1] \o type.items[2])
             ELSE InferThrows(map, "TypeError")
      [] OTHER -> Inferred(map, this)

\* this.#argTypes.map((at, i) => at.infer(site, map, argTypes[i])) from i on;
\* st is the map, the arguments inferred so far and the error thrown
RECURSIVE inferArgTypes(_, _, _, _)
inferArgTypes(fn, argTypes, i, st) ==
    IF st.err # "none" \/ i > Len(fn.argTypes) THEN st
    ELSE LET at == fn.argTypes[i]
             r == infer(st.map, at.type, argTypes[i])
         IN  inferArgTypes(fn, argTypes, i + 1,
                 [map |-> r.map, err |-> r.err,
                  args |-> IF r.err = "none"
                           THEN Append(st.args, ArgType(at.name, r.type, at.optional))
                           ELSE st.args])

\* this.#retTypes.map(rt => rt.infer(site, map, null)) from i on
RECURSIVE inferRetTypes(_, _, _)
inferRetTypes(fn, i, st) ==
    IF st.err # "none" \/ i > Len(fn.retTypes) THEN st
    ELSE LET r == infer(st.map, fn.retTypes[i], NullType)
         IN  inferRetTypes(fn, i + 1,
                 [map |-> r.map, err |-> r.err,
                  rets |-> IF r.err = "none" THEN Append(st.rets, r.type) ELSE st.rets])

\* FuncType.inferArgs(site, map, argTypes)
inferArgs(fn, map, argTypes) ==
    IF Len(argTypes) # Len(fn.argTypes)
    THEN [map |-> map, err |-> "TypeError", fn |-> fn]
    ELSE LET a == inferArgTypes(fn, argTypes, 1, [map |-> map, err |-> "none", args |-> <<>>])
             r == inferRetTypes(fn, 1, [map |-> a.map, err |-> a.err, rets |-> <<>>])
         IN  [map |-> r.map, err |-> r.err, fn |-> FuncType(a.args, r.rets)]

\* ParametricInstance.call(site, args, namedArgs): the map it builds and
\* what the call gives
call(params, fnType, args, namedArgs) ==
    LET inferred == inferArgs(fnType, <<>>, args)
    IN  IF inferred.err # "none"
        THEN [map |-> inferred.map, result |-> [err |-> inferred.err, retTypes |-> <<>>]]
        ELSE IF \E p \in params : p \notin DOMAIN inferred.map
        THEN [map |-> inferred.map, result |-> TypeError]
        ELSE [map |-> inferred.map, result |-> checkCall(inferred.fn, args, namedArgs)]

\* an inference pass begins: nothing is bound
InitInfer ==
    /\ IdleDeps
    /\ IdleEntry
    /\ IdleDefs
    /\ IdleParams
    /\ typeMap = <<>>
    /\ typeCall = [op |-> "none", this |-> NullType, type |-> NullType, before |-> <<>>,
                   result |-> Inferred(<<>>, NullType)]

\* one this.infer(site, map, type) of the pass
Infer ==
    \E this \in GenericTypes : \E type \in InferredTypes \cup {NullType} :
        LET r == infer(typeMap, this, type)
        IN  /\ typeMap' = r.map
            /\ typeCall' = [op |-> "infer", this |-> this, type |-> type,
                            before |-> typeMap, result |-> r]
            /\ UNCHANGED <<depsVars, entryVars, defsVars, paramVars>>

NextInfer == Infer

SpecInfer == InitInfer /\ [][NextInfer]_vars

\* the generic function types: up to MaxFuncArgs unnamed required arguments
GenericArgLists(n) ==
    {[i \in 1..n |-> ArgType("", types[i], FALSE)] : types \in [1..n -> GenericTypes]}

\* a generic function and the arguments of a call, the call not yet made
InitGeneric ==
    /\ IdleDeps
    /\ IdleEntry
    /\ IdleDefs
    /\ IdleParams
    /\ typeMap = <<>>
    /\ \E params \in {{"T"}, {"T", "U"}} :
       \E n \in 1..MaxFuncArgs : \E declared \in GenericArgLists(n) :
       \E ret \in {ParamTypeRef("T"), IntType} :
       \E m \in 1..MaxFuncArgs : \E args \in [1..m -> InferredTypes] :
           typeCall = [op |-> "none", params |-> params,
                       fn |-> FuncType(declared, <<ret>>), posArgs |-> args,
                       result |-> [err |-> "none", retTypes |-> <<>>]]

\* ParametricInstance.call(site, args)
Call ==
    /\ typeCall.op = "none"
    /\ LET r == call(typeCall.params, typeCall.fn, typeCall.posArgs, <<>>)
       IN  /\ typeMap' = r.map
           /\ typeCall' = [typeCall EXCEPT !.op = "call", !.result = r.result]
    /\ UNCHANGED <<depsVars, entryVars, defsVars, paramVars>>

NextGeneric == Call

SpecGeneric == InitGeneric /\ [][NextGeneric]_vars

(***************************************************************************)
(* Instance members of a struct: StructStatement.getInstanceMember         *)
(***************************************************************************)
\* the most fields a struct declares
MaxFields == 2

\* the names fields, impl statements and lookups are drawn from
FieldNames == {"copy", "serialize", "x", "y"}

ImplNames == {"copy", "x", "m"}

\* the statements of an impl block: a name and FuncStatement.isMethod
ImplStatements == {[name |-> n, isMethod |-> b] : n \in ImplNames, b \in BOOLEAN}

\* DataDefinition.findField, counted from 1, 0 for -1
findField(fields, name) ==
    IF \E i \in 1..Len(fields) : fields[i] = name
    THEN CHOOSE i \in 1..Len(fields) :
             fields[i] = name /\ \A j \in 1..(i - 1) : fields[j] # name
    ELSE 0

hasField(fields, name) == findField(fields, name) # 0

\* DataDefinition.hasMember
hasMember(fields, name) == hasField(fields, name) \/ name = "copy"

Member(level, index) == [level |-> level, index |-> index]

\* DataDefinition.getInstanceMember
DataDefinition_getInstanceMember(fields, name) ==
    IF name = "copy" THEN Member("auto", 0)
    ELSE IF findField(fields, name) = 0 THEN Member("ReferenceError", 0)
    ELSE Member("field", findField(fields, name))

\* ImplDefinition.getInstanceMember
ImplDefinition_getInstanceMember(impl, name) ==
    IF name = "serialize" THEN Member("auto", 0)
    ELSE IF \E i \in 1..Len(impl) : impl[i].name = name
    THEN LET i == CHOOSE i \in 1..Len(impl) :
                      impl[i].name = name /\ \A j \in 1..(i - 1) : impl[j].name # name
         IN  IF impl[i].isMethod THEN Member("impl", i) ELSE Member("ReferenceError", 0)
    ELSE Member("ReferenceError", 0)

\* StructStatement.getInstanceMember
getInstanceMember(struct, name) ==
    IF hasMember(struct.fields, name)
    THEN DataDefinition_getInstanceMember(struct.fields, name)
    ELSE ImplDefinition_getInstanceMember(struct.impl, name)

\* a struct with its fields and its impl block, and a name to look up
InitMembers ==
    /\ IdleDeps
    /\ IdleEntry
    /\ IdleDefs
    /\ IdleParams
    /\ typeMap = <<>>
    /\ \E n \in 1..MaxFields : \E fields \in SeqsOfLen(FieldNames, n) :
       \E impl \in SeqsUpTo(ImplStatements, 1) : \E name \in FieldNames \cup ImplNames :
           /\ \A i \in 1..n : \A j \in 1..n : fields[i] = fields[j] => i = j
           /\ typeCall = [op |-> "none", struct |-> [fields |-> fields, impl |-> impl],
                          name |-> name, result |-> Member("none", 0)]

\* struct.getInstanceMember(name)
GetInstanceMember ==
    /\ typeCall.op = "none"
    /\ typeCall' = [typeCall EXCEPT
                       !.op = "getInstanceMember",
                       !.result = getInstanceMember(typeCall.struct, typeCall.name)]
    /\ UNCHANGED <<typeMap, depsVars, entryVars, defsVars, paramVars>>

NextMembers == GetInstanceMember

SpecMembers == InitMembers /\ [][NextMembers]_vars

(***************************************************************************)
(* Off-chain values of structs and enum variants: _toUplcData and          *)
(* fromUplcData of StructStatementType.userType and                        *)
(* EnumMemberStatementType.userType                                        *)
(***************************************************************************)
\* the types a field is drawn from
FieldTypes == {"Int", "Bool", "ByteArray", "List"}

\* the off-chain values of a field type ("List" is []Int)
ValuesOf(type) ==
    CASE type = "Int" -> {0, 1}
      [] type = "Bool" -> BOOLEAN
      [] type = "ByteArray" -> {<<>>, <<255>>}
      [] type = "List" -> {<<>>, <<0>>, <<0, 1>>}

\* the constructor indices of enum variants
VariantIndices == {0, 1}

RECURSIVE FieldValues(_)
\* the argument lists new Struct(...args) takes for the given field types
FieldValues(types) ==
    IF types = <<>> THEN {<<>>}
    ELSE {<<v>> \o rest : v \in ValuesOf(Head(types)), rest \in FieldValues(Tail(types))}

\* UplcData
IntData(n) == [tag |-> "int", index |-> 0, value |-> n]

ByteArrayData(bytes) == [tag |-> "bytes", index |-> 0, value |-> bytes]

ListData(items) == [tag |-> "list", index |-> 0, value |-> items]

ConstrData(index, fields) == [tag |-> "constr", index |-> index, value |-> fields]

\* the outcome of a conversion: a value, or a thrown error
Converted(value) == [ok |-> TRUE, value |-> value]

NotConverted == [ok |-> FALSE, value |-> <<>>]

\* the getter data.list; constrList says whether ConstrData answers it with
\* its fields or throws as the other non-list data do
list(data, constrList) ==
    IF data.tag = "list" THEN Converted(data.value)
    ELSE IF data.tag = "constr" /\ constrList THEN Converted(data.value)
    ELSE NotConverted

\* field._toUplcData() of a value of a builtin type
field_toUplcData(type, value) ==
    CASE type = "Int" -> IntData(value)
      [] type = "Bool" -> ConstrData(IF value THEN 1 ELSE 0, <<>>)
      [] type = "ByteArray" -> ByteArrayData(value)
      [] type = "List" -> ListData([i \in 1..Len(value) |-> IntData(value[i])])

\* fieldType.userType.fromUplcData(data) of a builtin type
field_fromUplcData(type, data) ==
    CASE type = "Int" -> IF data.tag = "int" THEN Converted(data.value) ELSE NotConverted
      [] type = "Bool" -> IF data.tag = "constr" THEN Converted(data.index = 1) ELSE NotConverted
      [] type = "ByteArray" -> IF data.tag = "bytes" THEN Converted(data.value) ELSE NotConverted
      [] type = "List" ->
            IF data.tag = "list" /\ \A i \in 1..Len(data.value) : data.value[i].tag = "int"
            THEN Converted([i \in 1..Len(data.value) |-> data.value[i].value])
            ELSE NotConverted

\* this.#fields.map(f => f._toUplcData())
fields_toUplcData(types, fields) ==
    [i \in 1..Len(fields) |-> field_toUplcData(types[i], fields[i])]

\* the tail both fromUplcData share: the count of items, then each item
\* through the class of its field
fields_fromUplcData(types, dataItems) ==
    IF ~dataItems.ok THEN NotConverted
    ELSE IF Len(dataItems.value) # Len(types) THEN NotConverted
    ELSE IF \E i \in 1..Len(types) : ~field_fromUplcData(types[i], dataItems.value[i]).ok
    THEN NotConverted
    ELSE Converted([i \in 1..Len(types) |->
                      field_fromUplcData(types[i], dataItems.value[i]).value])

\* Struct._toUplcData
Struct_toUplcData(types, fields) ==
    IF Len(fields) = 1 THEN field_toUplcData(types[1], fields[1])
    ELSE ListData(fields_toUplcData(types, fields))

\* Struct.fromUplcData
Struct_fromUplcData(types, data, constrList) ==
    fields_fromUplcData(types, list(data, constrList))

\* EnumVariant._toUplcData
EnumVariant_toUplcData(index, types, fields) ==
    ConstrData(index, fields_toUplcData(types, fields))

\* EnumVariant.fromUplcData
EnumVariant_fromUplcData(index, types, data, constrList) ==
    IF data.tag # "constr" THEN NotConverted
    ELSE IF data.index # index THEN NotConverted
    ELSE fields_fromUplcData(types, list(data, constrList))

\* a value of a struct or of an enum variant, constructed with as many
\* fields as its type declares
InitData ==
    /\ IdleDeps
    /\ IdleEntry
    /\ IdleDefs
    /\ IdleParams
    /\ typeMap = <<>>
    /\ \E kind \in {"Struct", "EnumVariant"} : \E index \in VariantIndices :
       \E n \in 0..MaxFields : \E types \in SeqsOfLen(FieldTypes, n) :
       \E fields \in FieldValues(types) : \E constrList \in BOOLEAN :
           /\ kind = "Struct" => (n >= 1 /\ index = 0)
           /\ typeCall = [op |-> "none", kind |-> kind, index |-> index, types |-> types,
                          fields |-> fields, constrList |-> constrList,
                          data |-> IntData(0), result |-> NotConverted]

\* v._toUplcData()
ToUplcData ==
    /\ typeCall.op = "none"
    /\ typeCall' = [typeCall EXCEPT
           !.op = "_toUplcData",
           !.data = IF typeCall.kind = "Struct"
                    THEN Struct_toUplcData(typeCall.types, typeCall.fields)
                    ELSE EnumVariant_toUplcData(typeCall.index, typeCall.types,
                                                typeCall.fields)]
    /\ UNCHANGED <<typeMap, depsVars, entryVars, defsVars, paramVars>>

\* fromUplcData(data) of the class of v
FromUplcData ==
    /\ typeCall.op = "_toUplcData"
    /\ typeCall' = [typeCall EXCEPT
           !.op = "fromUplcData",
           !.result = IF typeCall.kind = "Struct"
                      THEN Struct_fromUplcData(typeCall.types, typeCall.data,
                                               typeCall.constrList)
                      ELSE EnumVariant_fromUplcData(typeCall.index, typeCall.types,
                                                    typeCall.data, typeCall.constrList)]
    /\ UNCHANGED <<typeMap, depsVars, entryVars, defsVars, paramVars>>

NextData == ToUplcData \/ FromUplcData

SpecData == InitData /\ [][NextData]_vars

(***************************************************************************)
(* The on-chain layout of a struct: the field getters of                   *)
(* StructStatement.toIR, and S::is_valid_data                              *)
(***************************************************************************)
MapData(pairs) == [tag |-> "map", index |-> 0, value |-> pairs]

\* the data the tests of Singleton and Pair[Int, Int] hand to is_valid_data,
\* with the answers they expect
IsValidDataTests ==
    << [data |-> IntData(0), singleton |-> "True", pair |-> "False"],
       [data |-> ByteArrayData(<<>>), singleton |-> "False", pair |-> "False"],
       [data |-> ListData(<<>>), singleton |-> "False", pair |-> "False"],
       [data |-> MapData(<<>>), singleton |-> "False", pair |-> "False"],
       [data |-> ConstrData(1, <<>>), singleton |-> "False", pair |-> "False"],
       [data |-> ListData(<<IntData(0), IntData(1)>>), singleton |-> "untested",
        pair |-> "True"],
       [data |-> ListData(<<IntData(0), IntData(1), IntData(2)>>),
        singleton |-> "untested", pair |-> "False"],
       [data |-> ListData(<<IntData(0)>>), singleton |-> "untested", pair |-> "False"] >>

\* the IR of a field getter: a builtin template, the position it reads, and
\* whether the item goes through __helios__common__unBoolData
GetterIR(getter, index, unBool) == [getter |-> getter, index |-> index, unBool |-> unBool]

\* DataDefinition.toIR(map, false): __helios__common__tuple_field_i for
\* field i, counted from 0
DataDefinition_toIR(types) ==
    [i \in 1..Len(types) |-> GetterIR("tuple_field", i - 1, types[i] = "Bool")]

\* a struct whose getters always read a tuple
StructStatement_toIR_tuple(types) == DataDefinition_toIR(types)

\* StructStatement.toIR: the getters set in the map, in field order
StructStatement_toIR(types) ==
    IF Len(types) = 1
    THEN IF types[1] = "Bool"
         THEN <<GetterIR("unBoolData", 0, TRUE)>>
         ELSE <<GetterIR("identity", 0, FALSE)>>
    ELSE DataDefinition_toIR(types)

\* __helios__common__unBoolData
unBoolData(data) ==
    IF data.tag = "constr" THEN Converted(data.index = 1) ELSE NotConverted

\* what a getter returns on the data of a struct
evalGetter(ir, data) ==
    CASE ir.getter = "identity" -> Converted(data)
      [] ir.getter = "unBoolData" -> unBoolData(data)
      [] ir.getter = "tuple_field" ->
            IF data.tag = "list" /\ Len(data.value) > ir.index
            THEN IF ir.unBool THEN unBoolData(data.value[ir.index + 1])
                 ELSE Converted(data.value[ir.index + 1])
            ELSE NotConverted

\* T::is_valid_data of a builtin field type
field_is_valid_data(type, data) ==
    CASE type = "Int" -> data.tag = "int"
      [] type = "Bool" -> data.tag = "constr" /\ data.index \in {0, 1} /\ data.value = <<>>
      [] type = "ByteArray" -> data.tag = "bytes"
      [] type = "List" ->
            data.tag = "list" /\ \A i \in 1..Len(data.value) : data.value[i].tag = "int"

\* S::is_valid_data of a struct with untagged fields
is_valid_data(types, data) ==
    IF Len(types) = 1 THEN field_is_valid_data(types[1], data)
    ELSE /\ data.tag = "list"
         /\ Len(data.value) = Len(types)
         /\ \A i \in 1..Len(types) : field_is_valid_data(types[i], data.value[i])

\* a struct with its field types, a value of it, and one of the test data
InitLayout ==
    /\ IdleDeps
    /\ IdleEntry
    /\ IdleDefs
    /\ IdleParams
    /\ typeMap = <<>>
    /\ \E n \in 1..MaxFields : \E types \in SeqsOfLen(FieldTypes, n) :
       \E fields \in FieldValues(types) : \E t \in 1..Len(IsValidDataTests) :
           typeCall = [op |-> "none", types |-> types, fields |-> fields,
                       test |-> IsValidDataTests[t], getters |-> <<>>, valid |-> FALSE]

\* statement.toIR(map)
StructToIR ==
    /\ typeCall.op = "none"
    /\ typeCall' = [typeCall EXCEPT !.op = "toIR",
                                    !.getters = StructStatement_toIR(typeCall.types)]
    /\ UNCHANGED <<typeMap, depsVars, entryVars, defsVars, paramVars>>

\* main(d) of the tests: S::is_valid_data(d)
IsValidData ==
    /\ typeCall.op = "toIR"
    /\ typeCall' = [typeCall EXCEPT
                       !.op = "is_valid_data",
                       !.valid = is_valid_data(typeCall.types, typeCall.test.data)]
    /\ UNCHANGED <<typeMap, depsVars, entryVars, defsVars, paramVars>>

NextLayout == StructToIR \/ IsValidData

SpecLayout == InitLayout /\ [][NextLayout]_vars

(***************************************************************************)
(* The fields of a struct or enum variant: parseDataFields                 *)
(***************************************************************************)
\* a field written without a string literal after its type
NoTag == "none"

\* getFieldEncodingKey returning None, and returning nothing
None == "None"

Undefined == "undefined"

DeclNames == {"a", "b"}

DeclTags == {NoTag, "a", "b", "x"}

\* the declarations name: Type and name: Type "tag"
Decls == {[name |-> n, tag |-> t] : n \in DeclNames, t \in DeclTags}

\* assertUniqueField
assertUniqueField(fields, errors, fieldName) ==
    IF \E i \in 1..Len(fields) : fields[i].name = fieldName
    THEN Append(errors, "duplicate field")
    ELSE errors

\* assertUniqueTag; encodingKeys maps the names of the tagged fields to
\* their tags, and has() looks among its keys
assertUniqueTag(encodingKeys, errors, tag) ==
    IF tag \in DOMAIN encodingKeys THEN Append(errors, "duplicate tag") ELSE errors

\* encodingKeys.set(name, tag)
encodingKeys_set(map, key, value) ==
    [k \in DOMAIN map \cup {key} |-> IF k = key THEN value ELSE map[k]]

\* getFieldEncodingKey: the third branch needs a name that get() misses and
\* has() finds, which no map has
getFieldEncodingKey(encodingKeys, fieldName) ==
    IF fieldName \in DOMAIN encodingKeys THEN encodingKeys[fieldName]
    ELSE IF DOMAIN encodingKeys = {} THEN None
    ELSE Undefined

\* one turn of the while loop, on a declaration
parseDataField(st, decl, allowEncodingKeys) ==
    LET unique == assertUniqueField(st.fields, st.errors, decl.name)
        errors == IF decl.tag # NoTag
                  THEN IF ~allowEncodingKeys
                       THEN Append(unique, "unexpected encodingKey")
                       ELSE assertUniqueTag(st.encodingKeys, unique, decl.tag)
                  ELSE IF DOMAIN st.encodingKeys # {}
                       THEN assertUniqueTag(st.encodingKeys, unique, decl.name)
                       ELSE unique
        encodingKeys == IF decl.tag # NoTag
                        THEN encodingKeys_set(st.encodingKeys, decl.name, decl.tag)
                        ELSE st.encodingKeys
    IN  [fields |-> Append(st.fields,
                           [name |-> decl.name, tag |-> decl.tag,
                            encodingKey |-> getFieldEncodingKey(encodingKeys, decl.name)]),
         encodingKeys |-> encodingKeys,
         errors |-> errors]

RECURSIVE parseDataFieldsFrom(_, _, _)
parseDataFieldsFrom(st, input, allowEncodingKeys) ==
    IF input = <<>> THEN st
    ELSE parseDataFieldsFrom(parseDataField(st, Head(input), allowEncodingKeys),
                             Tail(input), allowEncodingKeys)

\* parseDataFields(ctx, allowEncodingKeys)
parseDataFields(input, allowEncodingKeys) ==
    parseDataFieldsFrom([fields |-> <<>>, encodingKeys |-> <<>>, errors |-> <<>>],
                        input, allowEncodingKeys)

\* the declarations between the braces, and whether the context allows tags
InitFields ==
    /\ IdleDeps
    /\ IdleEntry
    /\ IdleDefs
    /\ IdleParams
    /\ typeMap = <<>>
    /\ \E n \in 1..MaxFields : \E input \in SeqsOfLen(Decls, n) :
       \E allowEncodingKeys \in BOOLEAN :
           typeCall = [op |-> "none", input |-> input,
                       allowEncodingKeys |-> allowEncodingKeys,
                       fields |-> <<>>, errors |-> <<>>]

ParseDataFields ==
    /\ typeCall.op = "none"
    /\ LET parsed == parseDataFields(typeCall.input, typeCall.allowEncodingKeys)
       IN  typeCall' = [typeCall EXCEPT !.op = "parseDataFields",
                                        !.fields = parsed.fields,
                                        !.errors = parsed.errors]
    /\ UNCHANGED <<typeMap, depsVars, entryVars, defsVars, paramVars>>

NextFields == ParseDataFields

SpecFields == InitFields /\ [][NextFields]_vars

(***************************************************************************)
(* The import graph, as the claims speak of it                             *)
(***************************************************************************)
ImportedNames(m) == {statements[m][k] : k \in 1..Len(statements[m])}

\* the modules m imports; the main module's name leads back to the module
\* root that is being resolved (the main or the post-main module)
Succ(root, m) ==
    (ImportedNames(m) \cap candidates)
        \cup (IF MainId \in ImportedNames(m) THEN {root} ELSE {})

RECURSIVE Closure(_, _)
Closure(root, S) ==
    LET T == S \cup UNION {Succ(root, m) : m \in S}
    IN  IF T = S THEN S ELSE Closure(root, T)

\* the modules m imports transitively
Reach(root, m) == Closure(root, Succ(root, m))

\* the modules a walk from root can touch
Touched(root) == {root} \cup Reach(root, root)

\* an import chain leads from root to a module that imports itself transitively
Cyclic(root) == \E m \in Touched(root) : m \in Reach(root, m)

\* no touched module imports a name that neither a candidate nor the main module has
NoMissing(root) == \A m \in Touched(root) : ImportedNames(m) \subseteq candidates \cup {MainId}

SeqSet(s) == {s[k] : k \in 1..Len(s)}

NoDup(s) == \A i, j \in 1..Len(s) : s[i] = s[j] => i = j

\* every module of s comes after all the modules it imports
DepsFirst(s) ==
    \A i \in 1..Len(s) : \A d \in ImportedNames(s[i]) \cap candidates :
        \E j \in 1..(i - 1) : s[j] = d

MainCallDone == pc \in {"mainResolved", "failed"}

\* C1: when every import resolves and there is no import cycle,
\* filterDependencies on a module (here the main module) returns exactly the
\* modules it imports transitively, itself excluded, each once, and every
\* returned module comes after every module it imports.
C1_TransitiveClosureInOrder ==
    (MainCallDone /\ NoMissing(MainId) /\ ~Cyclic(MainId)) =>
        /\ mainWalk.err = NoError
        /\ SeqSet(mainImports) = Reach(MainId, MainId)
        /\ MainId \notin SeqSet(mainImports)
        /\ NoDup(mainImports)
        /\ DepsFirst(mainImports)

\* a diamond: main imports two modules that both import a third one
C1_Witness ==
    /\ pc = "mainResolved"
    /\ NoMissing(MainId) /\ ~Cyclic(MainId)
    /\ Len(mainImports) = 3
    /\ \E m, n \in SeqSet(mainImports) :
          m # n /\ ImportedNames(m) \cap ImportedNames(n) # {}

\* C2: dependency resolution is acyclic-safe: the recursion never goes
\* deeper than the number of modules (every call returns or throws), and an
\* import chain that leads back to a module being resolved makes
\* filterDependencies throw, a syntax error whenever the walk meets no
\* import of a module that is missing from the candidates first.
C2_AcyclicSafe ==
    MainCallDone =>
        /\ mainWalk.depth <= Cardinality(candidates) + 1
        /\ Cyclic(MainId) => mainWalk.err # NoError
        /\ (Cyclic(MainId) /\ NoMissing(MainId)) => mainWalk.err = "SyntaxError"

\* a cycle of three modules below main, found at recursion depth 4
C2_Witness ==
    /\ pc = "failed"
    /\ mainWalk.err = "SyntaxError"
    /\ mainWalk.depth = 4
    /\ MainId \notin Reach(MainId, MainId)

\* C3: a module already included in the result is never walked again
\* (filterDependencies is invoked on every module at most once), and the
\* returned list holds each module at most once.
C3_NeverRewalked ==
    (MainCallDone /\ mainWalk.err = NoError) =>
        /\ NoDup(mainWalk.calls)
        /\ NoDup(mainImports)

\* C4: Program.new orders the modules: the transitive imports of main, main,
\* the imports of the post-main region that main does not import, the
\* post-main module; no module twice, every module after all it imports.
C4_FinalModuleOrder ==
    pc = "ordered" =>
        LET n == Cardinality(Reach(MainId, MainId))
            k == Len(modules)
        IN  /\ NoDup(modules)
            /\ k >= n + 1
            /\ {modules[i] : i \in 1..n} = Reach(MainId, MainId)
            /\ modules[n + 1] = MainId
            /\ DepsFirst(modules)
            /\ IF hasPost
               THEN /\ modules[k] = PostId
                    /\ {modules[i] : i \in (n + 2)..(k - 1)}
                          = Reach(PostId, PostId) \ Reach(MainId, MainId)
               ELSE k = n + 1

\* the post-main region imports a module main imports too, and a new one
C4_Witness ==
    /\ pc = "ordered"
    /\ hasPost
    /\ Len(postImports) = 1
    /\ Reach(PostId, PostId) \cap Reach(MainId, MainId) # {}

(***************************************************************************)
(* The entry-point contract, as the claims speak of it                     *)
(***************************************************************************)
\* the keyword sequence of a purpose
Keywords(p) ==
    IF p = "Spending" THEN <<"Datum", "Redeemer", "ScriptContext">>
    ELSE <<"Redeemer", "ScriptContext">>

Arity(p) == Len(Keywords(p))

IsKeyword(p, t) == InSeq(t, Keywords(p))

KeywordPos(p, t) == CHOOSE k \in 1..Arity(p) : Keywords(p)[k] = t

\* the name the wrapper gives the argument of a keyword
SlotName(t) ==
    IF t = "Datum" THEN "datum" ELSE IF t = "Redeemer" THEN "redeemer" ELSE "ctx"

\* without placeholders a duplicate-free order-preserving subsequence of the
\* keywords, with placeholders a full list with keyword i or a placeholder at i
RespectsKeywords(p, args) ==
    IF \E i \in 1..Len(args) : args[i] = ""
    THEN /\ Len(args) = Arity(p)
         /\ \A i \in 1..Len(args) : args[i] \in {"", Keywords(p)[i]}
    ELSE /\ \A i \in 1..Len(args) : IsKeyword(p, args[i])
         /\ \A i, j \in 1..Len(args) :
               i < j => KeywordPos(p, args[i]) < KeywordPos(p, args[j])

HasDuplicateKeyword(p, args) ==
    \E i, j \in 1..Len(args) : i < j /\ args[i] = args[j] /\ IsKeyword(p, args[i])

HasOutOfOrderKeyword(p, args) ==
    \E i, j \in 1..Len(args) :
        /\ i < j /\ IsKeyword(p, args[i]) /\ IsKeyword(p, args[j])
        /\ KeywordPos(p, args[i]) > KeywordPos(p, args[j])

HasUnrecognizedName(p, args) ==
    \E i \in 1..Len(args) : args[i] # "" /\ ~IsKeyword(p, args[i])

AllPlaceholders(args) == Len(args) >= 1 /\ \A i \in 1..Len(args) : args[i] = ""

Evaluated == epc \in {"checked", "rejected", "lowered"}

\* C5: validation accepts exactly the argument lists that respect the
\* keyword sequence of the purpose, and a duplicate keyword, an out-of-order
\* keyword, an unrecognized name or a count above the arity is a type error.
C5_EntryArgValidation ==
    (Evaluated /\ purpose # "Testing") =>
        /\ retTypes = <<"Bool">> =>
              (evalResult = "ok" <=> RespectsKeywords(purpose, argTypeNames))
        /\ (\/ HasDuplicateKeyword(purpose, argTypeNames)
            \/ HasOutOfOrderKeyword(purpose, argTypeNames)
            \/ HasUnrecognizedName(purpose, argTypeNames)
            \/ Len(argTypeNames) > Arity(purpose)) => evalResult = "TypeError"

\* C6: a list of placeholders only must have exactly the arity, or the
\* compilation fails; a list without placeholder that is shorter than the
\* arity raises one deprecation warning and nothing else, after which it is
\* accepted whenever it respects the keyword sequence; nothing else warns.
C6_PlaceholderArityAndDeprecation ==
    (Evaluated /\ purpose # "Testing") =>
        /\ (AllPlaceholders(argTypeNames) /\ Len(argTypeNames) # Arity(purpose))
              => evalResult \in {"TypeError", "AssertionError"}
        /\ (AllPlaceholders(argTypeNames) /\ Len(argTypeNames) = Arity(purpose)
              /\ retTypes = <<"Bool">>) => (evalResult = "ok" /\ warnings = 0)
        /\ (~haveUnderscores(argTypeNames) /\ Len(argTypeNames) < Arity(purpose))
              => /\ warnings = 1
                 /\ evalResult = "ok" <=>
                        (RespectsKeywords(purpose, argTypeNames) /\ retTypes = <<"Bool">>)
        /\ warnings = 1
              => (~haveUnderscores(argTypeNames) /\ Len(argTypeNames) < Arity(purpose))

\* a legacy signature: one keyword argument only, accepted with a warning
C6_Witness ==
    /\ epc = "checked"
    /\ purpose = "Spending"
    /\ argTypeNames = <<"ScriptContext">>
    /\ warnings = 1
    /\ evalResult = "ok"

\* C7: Spending, Minting and Staking programs type-check only with exactly
\* one return type that is Bool (anything else is a type error); Testing
\* programs accept any argument list with one return type and reject more.
C7_EntryReturnContract ==
    Evaluated =>
        IF purpose = "Testing"
        THEN /\ Len(retTypes) = 1 => evalResult = "ok"
             /\ Len(retTypes) > 1 => evalResult = "TypeError"
        ELSE /\ evalResult = "ok" => retTypes = <<"Bool">>
             /\ (RespectsKeywords(purpose, argTypeNames) /\ retTypes # <<"Bool">>)
                   => evalResult = "TypeError"

\* a spending program with a valid argument list that returns an Int
C7_Witness ==
    /\ epc = "rejected"
    /\ purpose = "Spending"
    /\ argTypeNames = <<"Datum", "Redeemer", "ScriptContext">>
    /\ retTypes = <<"Int">>
    /\ evalResult = "TypeError"

\* C8: the wrapper of an accepted entry function has exactly the arity of
\* the purpose as parameters, datum, redeemer and ctx at their fixed
\* positions and _ in every other slot, and main is called self-applied with
\* one inner argument per declared argument, in declared order.
C8_WrapperShape ==
    (epc = "lowered" /\ purpose # "Testing") =>
        /\ Len(outerArgs) = Arity(purpose)
        /\ \A k \in 1..Arity(purpose) :
              outerArgs[k] = IF InSeq(Keywords(purpose)[k], argTypeNames)
                             THEN SlotName(Keywords(purpose)[k]) ELSE "_"
        /\ Len(innerArgs) = Len(argTypeNames)
        /\ \A i \in 1..Len(argTypeNames) :
              innerArgs[i] = IF argTypeNames[i] = "" THEN "0" ELSE SlotName(argTypeNames[i])
        /\ entryCall = <<mainPath, mainPath>>

\* a legacy signature whose only argument is the last keyword: the leading
\* slots are filled with discarded placeholders
C8_Witness ==
    /\ epc = "lowered"
    /\ purpose \in {"Minting", "Staking"}
    /\ argTypeNames = <<"ScriptContext">>
    /\ outerArgs = <<"_", "ctx">>
    /\ innerArgs = <<"ctx">>


(***************************************************************************)
(* The definition graph, as the claims speak of it                         *)
(***************************************************************************)
\* the position of the ") -> {" that ends the parameter list of a wrapper
WrapperEnd(ir) ==
    IF ir # <<>> /\ ir[1] = LP /\ \E i \in 1..Len(ir) : ir[i] = ARROW
    THEN CHOOSE i \in 1..Len(ir) :
             ir[i] = ARROW /\ \A j \in 1..(i - 1) : ir[j] # ARROW
    ELSE 0

BoundParams(ir) == {ir[i] : i \in 2..(WrapperEnd(ir) - 1)}

References(ir) == {ir[i] : i \in (WrapperEnd(ir) + 1)..Len(ir)} \ Punctuation

IsPrimitive(name) == Len(name) = 1 /\ name[1][1] = "__core"

Closed(g) ==
    \A i \in 1..Len(g) : \A n \in References(g[i].ir) :
        n \in KeysOf(g) \/ n \in BoundParams(g[i].ir) \/ IsPrimitive(n)

\* no key has the prefix and the suffix of the name and a hole in each part
NoTemplateFor(name) ==
    ~ \E k \in KeysOf(Builtins) \cup KeysOf(defs) :
        /\ Len(k) = Len(name)
        /\ k[1] = name[1]
        /\ k[Len(k)] = name[Len(name)]
        /\ \A w \in 2..(Len(k) - 1) : k[w] = HoleName(w - 2)

MissingTemplateReferenced ==
    \E i \in 1..Len(defs) : \E n \in References(defs[i].ir) :
        IsMangled(n) /\ NoTemplateFor(n)

\* a definition injectTypeParameters made
IsMonomorphized(name) ==
    IsMangled(name) /\ name \notin KeysOf(Builtins) /\ name \notin KeysOf(defs)

\* C9: a graph fetchDefinitions returns is closed (every name a fragment
\* references is a key of the graph, a parameter of the fragment's wrapper
\* or a primitive), and fetchDefinitions throws instead of returning when a
\* referenced instantiation has no template.
C9_ClosedGraph ==
    /\ dpc = "returned" => Closed(graph)
    /\ (dpc \in {"returned", "thrown"} /\ MissingTemplateReferenced)
           => dpc = "thrown"

\* a returned graph with an instantiation made for another instantiation
C9_Witness ==
    /\ dpc = "returned"
    /\ \E i, j \in 1..Len(graph) :
        /\ IsMonomorphized(graph[i].key)
        /\ IsMonomorphized(graph[j].key)
        /\ graph[j].key \in References(graph[i].ir)
        /\ graph[j].key \notin UNION {References(defs[x].ir) : x \in 1..Len(defs)}

\* a monomorphized definition stands after every definition whose key starts
\* with one of its hole paths
AfterHolePaths(g) ==
    \A i \in 1..Len(g) : IsMonomorphized(g[i].key) =>
        \A j \in 1..Len(g) :
            (\E p \in 1..Len(PartsOf(g[i].key)) :
                 startsWith(g[j].key, PartsOf(g[i].key)[p])) => j < i

\* another definition that references a monomorphized name stands after it
NoForwardReference(g) ==
    \A i \in 1..Len(g) : IsMonomorphized(g[i].key) =>
        \A j \in 1..Len(g) : (j # i /\ g[i].key \in References(g[j].ir)) => i < j

\* C10: the graph injectTypeParameters returns is dependency-ordered: each
\* monomorphized definition stands after every definition whose key starts
\* with one of its hole paths, and before every definition that references
\* it, so that no definition has a forward reference.
C10_DependencyOrdered ==
    dpc = "returned" => AfterHolePaths(graph) /\ NoForwardReference(graph)


\* the names the search of injectTypeParameters can come across: the
\* mangled names of the user fragments and of the fragments instantiated
\* for them
RECURSIVE Discovered(_)
Discovered(S) ==
    LET new == {n \in UNION {References(instantiate(Builtins, defs, m)) :
                                m \in {x \in S : hasTemplate(Builtins, defs, x)}} :
                   IsMangled(n)}
    IN  IF new \subseteq S THEN S ELSE Discovered(S \cup new)

DiscoveredNames ==
    Discovered({n \in UNION {References(defs[i].ir) : i \in 1..Len(defs)} :
                   IsMangled(n)})

\* the returned graph holds one definition for each distinct mangled name
\* the search came across and no definition twice
InstantiatedOnce ==
    dpc = "returned" =>
        /\ \A i, j \in 1..Len(graph) : graph[i].key = graph[j].key => i = j
        /\ {graph[i].key : i \in {x \in 1..Len(graph) : IsMonomorphized(graph[x].key)}}
               = DiscoveredNames

\* C11: generic expansion terminates: from every rewritten table
\* injectTypeParameters returns or throws, and the graph it returns holds
\* one definition for each distinct mangled name it came across and no
\* definition twice, also for a template written in terms of itself.
C11_ExpansionTerminates ==
    /\ InstantiatedOnce
    /\ dpc = "rewritten" =>
           LET r == injectTypeParameters(Builtins, defs)
           IN  \/ r.err = "none" /\ Len(r.entries) <= Len(Builtins) + Len(defs) + MaxRefs + 2
               \/ r.err = "Error" /\ MissingTemplateReferenced

\* a returned graph with the instantiation of the template that mentions
\* itself, mentioned by two user definitions
C11_Witness ==
    /\ dpc = "returned"
    /\ \E i \in 1..Len(graph) :
        /\ IsMonomorphized(graph[i].key)
        /\ graph[i].key \in References(graph[i].ir)
        /\ \E x, y \in 1..Len(defs) :
            /\ x # y
            /\ graph[i].key \in References(defs[x].ir)
            /\ graph[i].key \in References(defs[y].ir)


\* a parameter list holds names only: no ") -> {" comes right after a mark
NamesAsParameters(ir) ==
    \A a \in 1..Len(ir) : ir[a] = ARROW => (a > 1 /\ ir[a - 1] \notin Punctuation)

\* no application is applied again: no "(" comes right after a ")"
AppliedOnce(ir) ==
    \A a \in 1..Len(ir) : ir[a] = LP => (a = 1 \/ ir[a - 1] # RP)

\* C12: rewriting an already rewritten table again leaves the meaning of
\* every definition as it was (each is still a function of names, its
\* references applied once to the trailing keys), and building the graph
\* again from the same table gives the same graph.
C12_RewriteFixedPoint ==
    /\ dpc = "rewritten" =>
           LET again == injectMutualRecursions(defs)
           IN  \A i \in 1..Len(again) :
                   /\ again[i].key = defs[i].key
                   /\ NamesAsParameters(defs[i].ir) /\ AppliedOnce(defs[i].ir)
                   /\ NamesAsParameters(again[i].ir) /\ AppliedOnce(again[i].ir)
    /\ dpc = "returned" => graph = injectTypeParameters(Builtins, defs).entries


(***************************************************************************)
(* Parameters, as the claims speak of them                                 *)
(***************************************************************************)
\* the positions of the constants of the main module with the given name
MainConstantsNamed(name) ==
    {k \in 1..Len(program) :
        program[k].mod = "main" /\ program[k].kind = "const" /\ program[k].name = name}

BoundTo(map, key, ir) == \E x \in 1..Len(map) : map[x].key = key /\ map[x].ir = ir

\* the graph of an entry point holds the statements up to the first
\* statement named main
BeforeCut(k) == \A j \in 1..(k - 1) : program[j].name # "main"

\* every parameter's constant in the graph is bound to its placeholder
ParametersBound(parameters, map) ==
    \A i \in 1..Len(parameters) : \A k \in MainConstantsNamed(parameters[i]) :
        BeforeCut(k) =>
            BoundTo(map, PathOf(program[k]),
                    [kind |-> "param", index |-> i - 1,
                     unBoolData |-> (program[k].type = "Bool")])

\* every other key of the graph holds the IR its statement makes of itself
OthersLowered(parameters, map) ==
    \A x \in 1..Len(map) :
        \/ \E i \in 1..Len(parameters) : \E k \in MainConstantsNamed(parameters[i]) :
               map[x].key = PathOf(program[k])
        \/ /\ map[x].ir.kind = "own"
           /\ PathOf(program[map[x].ir.index]) = map[x].key

Declared(name) ==
    \E k \in 1..Len(program) :
        /\ program[k].mod \in {"main", "post"}
        /\ program[k].kind = "const"
        /\ program[k].name = name

\* C14: asking the parameter interface (evalParam, the parameters getter,
\* changeParamSafe) for a constant the program does not declare fails with a
\* reference error and leaves the statements and the parameter cache as
\* they were.
C14_UndeclaredParameter ==
    [][(/\ lastCall'.op \in {"evalParam", "parameters", "changeParamSafe"}
        /\ ~Declared(lastCall'.args[1]))
          => (/\ lastCall'.err = "ReferenceError"
              /\ program' = program
              /\ parameterCache' = parameterCache)]_vars

(***************************************************************************)
(* The type model, as the claims speak of it                               *)
(***************************************************************************)
\* the identical builtin variant with identical structural parameters
IdenticalTypes(a, b) == a = b

\* C15: two builtin types are base of each other if and only if they are
\* the identical builtin variant with identical structural parameters (item,
\* key and value types, byte-array size, script purpose)
C15_MutualBaseIffIdentical ==
    (/\ typeCall.op = "same"
     /\ typeCall.this \in BuiltinTypes
     /\ typeCall.type \in BuiltinTypes)
        => (typeCall.result <=> IdenticalTypes(typeCall.this, typeCall.type))

\* C16: for every user enum E and each of its variants V, E is a base of V,
\* V is not a base of E, and V is not a base of any other variant W of E
\* whose name does not begin with the name of V
C16_VariantIsItsEnum ==
    typeCall.op = "isBaseOf" =>
        \A e \in EnumNames : \A v \in MemberNames :
            /\ (/\ typeCall.this = EnumStatementType(e)
                /\ typeCall.type = EnumMemberStatementType(e, v))
                   => typeCall.result
            /\ (/\ typeCall.this = EnumMemberStatementType(e, v)
                /\ typeCall.type = EnumStatementType(e))
                   => ~typeCall.result
            /\ \A w \in MemberNames :
                   (/\ w # v
                    /\ ~IsPrefix(v, w)
                    /\ typeCall.this = EnumMemberStatementType(e, v)
                    /\ typeCall.type = EnumMemberStatementType(e, w))
                       => ~typeCall.result

\* an enum was asked whether it is a base of one of its variants, and it is
C16_Witness ==
    /\ typeCall.op = "isBaseOf"
    /\ typeCall.this = EnumStatementType(<<"E">>)
    /\ typeCall.type = EnumMemberStatementType(<<"E">>, <<"A", "B">>)
    /\ typeCall.result

(***************************************************************************)
(* Call checking, as the claims speak of it                                *)
(***************************************************************************)
Checked == typeCall.op = "checkCall"

DeclaredNames == {typeCall.fn.argTypes[i].name : i \in 1..Len(typeCall.fn.argTypes)} \ {""}

\* the position the argument named key is declared at
DeclaredAt(key) == CHOOSE i \in 1..Len(typeCall.fn.argTypes) : typeCall.fn.argTypes[i].name = key

\* more positional arguments are given than declared
TooManyPositional == Len(typeCall.posArgs) > Len(typeCall.fn.argTypes)

\* a required argument is supplied neither positionally nor by name
RequiredMissing ==
    \E i \in 1..Len(typeCall.fn.argTypes) :
        /\ ~typeCall.fn.argTypes[i].optional
        /\ i > Len(typeCall.posArgs)
        /\ typeCall.fn.argTypes[i].name \notin DOMAIN typeCall.namedArgs

\* a named argument is not one of the declared argument names
UnknownNamed == \E key \in DOMAIN typeCall.namedArgs : key \notin DeclaredNames

\* a named argument names a parameter a positional argument already covers
CoveredTwice ==
    \E key \in DOMAIN typeCall.namedArgs :
        key \in DeclaredNames /\ DeclaredAt(key) <= Len(typeCall.posArgs)

\* some argument is not an instance of a subtype of the declared type
ArgumentMismatch ==
    \/ \E i \in 1..Len(typeCall.posArgs) :
           /\ i <= Len(typeCall.fn.argTypes)
           /\ ~isBaseOf(typeCall.fn.argTypes[i].type, typeCall.posArgs[i])
    \/ \E key \in DOMAIN typeCall.namedArgs :
           /\ key \in DeclaredNames
           /\ ~isBaseOf(typeCall.fn.argTypes[DeclaredAt(key)].type, typeCall.namedArgs[key])

\* C17: checkCall raises a type error when more positional arguments are
\* given than declared, when a required argument is supplied neither
\* positionally nor by name, when a named argument is not declared, or when
\* a named argument is already covered positionally; otherwise (the
\* arguments being of the declared types) it returns the declared return types
C17_CheckCallArguments ==
    Checked =>
        /\ (TooManyPositional \/ RequiredMissing \/ UnknownNamed \/ CoveredTwice)
               => typeCall.result.err = "TypeError"
        /\ ~(TooManyPositional \/ RequiredMissing \/ UnknownNamed \/ CoveredTwice
                 \/ ArgumentMismatch)
               => typeCall.result = [err |-> "none", retTypes |-> typeCall.fn.retTypes]

\* C18: in checkCall every positional and every named argument must be an
\* instance of a subtype of the declared type; any violation is a type
\* error and no return type is produced
C18_ArgumentsAreSubtypes ==
    (Checked /\ ArgumentMismatch) => typeCall.result = TypeError

\* a call whose argument counts and names are right, rejected because a
\* positional and a named argument are of the wrong type
C18_Witness ==
    /\ Checked
    /\ ~(TooManyPositional \/ RequiredMissing \/ UnknownNamed \/ CoveredTwice)
    /\ Len(typeCall.posArgs) = 1
    /\ ~isBaseOf(typeCall.fn.argTypes[1].type, typeCall.posArgs[1])
    /\ DOMAIN typeCall.namedArgs = {"b"}
    /\ typeCall.result = TypeError

(***************************************************************************)
(* Inference, as the claims speak of it                                    *)
(***************************************************************************)
\* C19: within one inference pass a type parameter, once bound, is never
\* rebound: a later infer for it returns the existing binding and leaves the
\* map as it was, and inference under a fully bound map changes no binding
C19_BoundOnce ==
    typeCall.op = "infer" =>
        /\ \A n \in DOMAIN typeCall.before :
               n \in DOMAIN typeMap /\ typeMap[n] = typeCall.before[n]
        /\ (/\ typeCall.this.class = "ParamTypeRef"
            /\ typeCall.this.path[1] \in DOMAIN typeCall.before)
               => /\ typeCall.result.err = "none"
                  /\ typeCall.result.type = typeCall.before[typeCall.this.path[1]]
                  /\ DOMAIN typeMap = DOMAIN typeCall.before
        /\ DOMAIN typeCall.before = TypeParamNames
               => DOMAIN typeMap = DOMAIN typeCall.before

\* infer was called for a bound parameter with a type other than its binding
C19_Witness ==
    /\ typeCall.op = "infer"
    /\ typeCall.this = ParamTypeRef("T")
    /\ "T" \in DOMAIN typeCall.before
    /\ typeCall.type # NullType
    /\ typeCall.type # typeCall.before["T"]
    /\ typeCall.result.type = typeCall.before["T"]

\* the argument at position j stands for a type parameter that the call
\* bound, and its type is not the same type as that binding
DiffersFromBinding(j) ==
    /\ j <= Len(typeCall.posArgs)
    /\ typeCall.fn.argTypes[j].type.class = "ParamTypeRef"
    /\ typeCall.fn.argTypes[j].type.path[1] \in DOMAIN typeMap
    /\ ~same(typeCall.posArgs[j], typeMap[typeCall.fn.argTypes[j].type.path[1]])

\* C20: when a type parameter is referenced again in a generic call, the
\* argument there must be of the same type as the binding (base of each
\* other); if it differs, be it a strict subtype of the binding, the call
\* fails, whatever the order of the arguments
C20_SecondReferenceSameType ==
    typeCall.op = "call" =>
        \A j \in 1..Len(typeCall.fn.argTypes) :
            DiffersFromBinding(j) => typeCall.result.err # "none"

\* v is a variant of the enum e
IsOwnVariant(e, v) ==
    \E en \in EnumNames : \E m \in MemberNames :
        e = EnumStatementType(en) /\ v = EnumMemberStatementType(en, m)

\* C28: between two distinct user-defined types that are not an enum and
\* one of its own variants, isBaseOf is false in both directions, also when
\* the path of one is a string prefix of the path of the other
C28_UnrelatedUserTypes ==
    (/\ typeCall.op = "isBaseOf"
     /\ typeCall.this \in UserTypes
     /\ typeCall.type \in UserTypes
     /\ typeCall.this # typeCall.type
     /\ ~IsOwnVariant(typeCall.this, typeCall.type)
     /\ ~IsOwnVariant(typeCall.type, typeCall.this))
        => ~typeCall.result

(***************************************************************************)
(* Mutual recursion, as the claims speak of it                             *)
(***************************************************************************)
\* the keys of the table from position i on, in insertion order
TrailingKeys(g, i) == [x \in 1..(Len(g) - i + 1) |-> g[x + i - 1].key]

PositionOf(g, k) == CHOOSE i \in 1..Len(g) : g[i].key = k

\* the application k(k, ..., kn-1) of a key to the keys from its position on
ApplicationOf(g, k) == <<k, LP>> \o TrailingKeys(g, PositionOf(g, k)) \o <<RP>>

\* the fragment with every occurrence of a key made the application of it
RECURSIVE EveryKeyApplied(_, _)
EveryKeyApplied(g, ir) ==
    IF ir = <<>> THEN <<>>
    ELSE (IF HasKey(g, Head(ir)) THEN ApplicationOf(g, Head(ir)) ELSE <<Head(ir)>>)
             \o EveryKeyApplied(g, Tail(ir))

\* the fragment is a run of applications of keys, each to its trailing keys
RECURSIVE ApplicationsOnly(_, _)
ApplicationsOnly(g, ir) ==
    \/ ir = <<>>
    \/ /\ HasKey(g, Head(ir))
       /\ IsPrefix(ApplicationOf(g, Head(ir)), ir)
       /\ ApplicationsOnly(g, SubSeq(ir, Len(ApplicationOf(g, Head(ir))) + 1, Len(ir)))

\* the part of a wrapped fragment between ") -> {" and "}"
WrappedBody(ir) == SubSeq(ir, WrapperEnd(ir) + 1, Len(ir) - 1)

\* the names of a fragment that stand outside every argument list
RECURSIVE FreeReferences(_, _)
FreeReferences(ir, depth) ==
    IF ir = <<>> THEN {}
    ELSE IF Head(ir) = LP THEN FreeReferences(Tail(ir), depth + 1)
    ELSE IF Head(ir) = RP THEN FreeReferences(Tail(ir), depth - 1)
    ELSE (IF Head(ir) \in Punctuation THEN {} ELSE {Head(ir)})
             \cup FreeReferences(Tail(ir), depth)

\* C25: after injectMutualRecursions on the keys k0..kn-1, the definition of
\* ki is a function of exactly (ki, ..., kn-1), every occurrence of a key kj
\* has been rewritten once into kj(kj, ..., kn-1), and inside the definition
\* of ki the only key references the wrapper does not bind are to keys
\* before position i
C25_WrappedWithTrailingKeys ==
    /\ dpc = "lowered" =>
           LET r == injectMutualRecursions(defs)
           IN  \A i \in 1..Len(defs) :
                   /\ r[i].key = defs[i].key
                   /\ r[i].ir = <<LP>> \o TrailingKeys(defs, i) \o <<ARROW>>
                                    \o EveryKeyApplied(defs, defs[i].ir) \o <<RB>>
    /\ dpc = "rewritten" =>
           \A i \in 1..Len(defs) :
               /\ WrapperEnd(defs[i].ir) = Len(defs) - i + 3
               /\ SubSeq(defs[i].ir, 2, WrapperEnd(defs[i].ir) - 1) = TrailingKeys(defs, i)
               /\ ApplicationsOnly(defs, WrappedBody(defs[i].ir))
               /\ \A k \in FreeReferences(WrappedBody(defs[i].ir), 0) \cap KeysOf(defs) :
                      k \in BoundParams(defs[i].ir) \/ PositionOf(defs, k) < i

\* a rewritten table of three keys whose first definition refers to the last
\* key and whose last definition refers to the first
C25_Witness ==
    /\ dpc = "rewritten"
    /\ Len(defs) = 3
    /\ IsPrefix(ApplicationOf(defs, defs[3].key), WrappedBody(defs[1].ir))
    /\ IsPrefix(ApplicationOf(defs, defs[1].key), WrappedBody(defs[3].ir))

\* the position of the main function of the main module
MainFuncAt ==
    CHOOSE k \in 1..Len(program) :
        program[k].mod = "main" /\ program[k].kind = "func" /\ program[k].name = "main"

\* C26: the definition graph of an entry point is cut off exactly at the
\* entry function: it holds the key of the main function of the main module,
\* that key is its last key and no statement after main contributes a key,
\* also when an imported module holds a statement named main
C26_CutAtEntryFunction ==
    (lastCall.op = "toIR" /\ lastCall.err = "none") =>
        /\ Len(lastCall.map) >= 1
        /\ lastCall.map[Len(lastCall.map)].key = PathOf(program[MainFuncAt])
        /\ \A x \in 1..Len(lastCall.map) : \E k \in 1..MainFuncAt :
               lastCall.map[x].key = PathOf(program[k])

\* C27: after any sequence of parameter writes (the setter, changeParamSafe)
\* and reads (the getter), reading a parameter gives the value the current
\* constant statements determine, never a value cached before a change
C27_CacheCoherent ==
    (lastCall.op = "parameters" /\ lastCall.err = "none") =>
        lastCall.value = evalParam(program, lastCall.args[1]).value

\* the declared argument i is supplied exactly once: positionally or by name
SuppliedOnce(i) ==
    (i <= Len(typeCall.posArgs)) # (typeCall.fn.argTypes[i].name \in DOMAIN typeCall.namedArgs)

\* every argument of the call is of the type declared for it, and the call
\* passes nothing but declared arguments
CorrectlyTyped == ~(TooManyPositional \/ UnknownNamed \/ ArgumentMismatch)

\* C29: checkCall accepts every call that supplies each non-optional
\* argument exactly once with a correctly typed value, positionally or by
\* name, and returns the declared return types
C29_CompleteCallsAccepted ==
    (/\ Checked
     /\ CorrectlyTyped
     /\ ~CoveredTwice
     /\ \A i \in 1..Len(typeCall.fn.argTypes) :
            ~typeCall.fn.argTypes[i].optional => SuppliedOnce(i))
        => /\ typeCall.result.err = "none"
           /\ typeCall.result.retTypes = typeCall.fn.retTypes

\* the first declared argument is the function type (T) -> U and the first
\* argument of the call is a function type of one argument and one return
\* value, the call passing as many arguments as are declared
FunctionMatchedFirst ==
    /\ typeCall.op = "call"
    /\ Len(typeCall.posArgs) = Len(typeCall.fn.argTypes)
    /\ typeCall.fn.argTypes[1].type = FuncTypeOf(<<ParamTypeRef("T")>>, <<ParamTypeRef("U")>>)
    /\ typeCall.posArgs[1].class = "FuncType"
    /\ Len(typeCall.posArgs[1].items[1]) = 1
    /\ Len(typeCall.posArgs[1].items[2]) = 1

\* C30: matching a declared parameter of function type that mentions type
\* parameters against a function type with the same number of arguments
\* and of return values binds the type parameters pairwise from the
\* argument and return types of the argument, instead of failing
C30_InferThroughFunctionType ==
    FunctionMatchedFirst =>
        /\ DOMAIN typeMap = {"T", "U"}
        /\ typeMap["T"] = typeCall.posArgs[1].items[1][1]
        /\ typeMap["U"] = typeCall.posArgs[1].items[2][1]

(***************************************************************************)
(* Member lookup, as the claims speak of it                                *)
(***************************************************************************)
\* the members every data type has without declaring them
AutoMembers == {"copy", "serialize"}

\* the level a name resolves at: auto-generated members first, then fields,
\* then the methods of the impl block
ExpectedLevel(struct, name) ==
    IF name \in AutoMembers THEN "auto"
    ELSE IF \E i \in 1..Len(struct.fields) : struct.fields[i] = name THEN "field"
    ELSE IF \E i \in 1..Len(struct.impl) :
                struct.impl[i].name = name /\ struct.impl[i].isMethod
    THEN "impl"
    ELSE "ReferenceError"

\* C21: instance-member lookup on a struct resolves auto-generated members
\* first, then fields by exact name, then impl-block members; a name at more
\* than one level resolves at the earliest, and a name at no level is a
\* reference error
C21_MemberResolutionOrder ==
    typeCall.op = "getInstanceMember" =>
        typeCall.result.level = ExpectedLevel(typeCall.struct, typeCall.name)

\* C22: for every struct type and every enum-variant type, and every value
\* constructed with the right number of fields, fromUplcData of the value's
\* _toUplcData returns a value equal to it, structs of exactly one field
\* included
C22_DataRoundTrip ==
    typeCall.op = "fromUplcData" =>
        /\ typeCall.result.ok
        /\ typeCall.result.value = typeCall.fields

(***************************************************************************)
(* The layout of a struct, as the claims speak of it                       *)
(***************************************************************************)
\* what field i of the value is on chain: a Bool as a boolean, every other
\* field as its data
OnChainField(i) ==
    IF typeCall.types[i] = "Bool" THEN typeCall.fields[i]
    ELSE field_toUplcData(typeCall.types[i], typeCall.fields[i])

\* the getters read the fields out of the data of the value
GettersReadFields ==
    /\ Len(typeCall.getters) = Len(typeCall.types)
    /\ \A i \in 1..Len(typeCall.types) :
           evalGetter(typeCall.getters[i],
                      Struct_toUplcData(typeCall.types, typeCall.fields))
               = Converted(OnChainField(i))

\* one field: the bare encoding of the field, read by the identity
BareSingleton ==
    Len(typeCall.types) = 1 =>
        /\ Struct_toUplcData(typeCall.types, typeCall.fields)
               = field_toUplcData(typeCall.types[1], typeCall.fields[1])
        /\ typeCall.getters[1].getter
               = (IF typeCall.types[1] = "Bool" THEN "unBoolData" ELSE "identity")

\* two fields or more: the list of the encodings of the fields
ListOfFields ==
    Len(typeCall.types) >= 2 =>
        LET data == Struct_toUplcData(typeCall.types, typeCall.fields)
        IN  /\ data.tag = "list"
            /\ Len(data.value) = Len(typeCall.types)
            /\ \A i \in 1..Len(typeCall.types) :
                   data.value[i] = field_toUplcData(typeCall.types[i], typeCall.fields[i])

IsIntData(data) == data.tag = "int"

\* S{a: Int} accepts integer data only; S{a: Int, b: Int} accepts lists of
\* two integer data only; both answer the tests as the tests expect
ValidDataOfIntStructs ==
    /\ typeCall.types = <<"Int">> =>
           /\ typeCall.valid <=> IsIntData(typeCall.test.data)
           /\ typeCall.test.singleton = "True" => typeCall.valid
           /\ typeCall.test.singleton = "False" => ~typeCall.valid
    /\ typeCall.types = <<"Int", "Int">> =>
           /\ typeCall.valid <=>
                  /\ typeCall.test.data.tag = "list"
                  /\ Len(typeCall.test.data.value) = 2
                  /\ \A i \in 1..2 : IsIntData(typeCall.test.data.value[i])
           /\ typeCall.test.pair = "True" => typeCall.valid
           /\ typeCall.test.pair = "False" => ~typeCall.valid

UsesTags == \E i \in 1..Len(typeCall.input) : typeCall.input[i].tag # NoTag

\* the key a field is encoded under: its tag, or its name when the struct
\* uses tags and the field has none
EncodingKeyOf(decl) == IF decl.tag # NoTag THEN decl.tag ELSE decl.name

DuplicateName ==
    \E i \in 1..Len(typeCall.input) : \E j \in 1..Len(typeCall.input) :
        i # j /\ typeCall.input[i].name = typeCall.input[j].name

DuplicateEncodingKey ==
    /\ UsesTags
    /\ \E i \in 1..Len(typeCall.input) : \E j \in 1..Len(typeCall.input) :
           i # j /\ EncodingKeyOf(typeCall.input[i]) = EncodingKeyOf(typeCall.input[j])

\* C24: when parseDataFields reports no syntax error the fields have pairwise
\* distinct names and pairwise distinct encoding keys, and a tag where
\* encoding keys are not allowed is a syntax error
C24_UniqueNamesAndTags ==
    typeCall.op = "parseDataFields" =>
        /\ typeCall.errors = <<>> => (~DuplicateName /\ ~DuplicateEncodingKey)
        /\ (UsesTags /\ ~typeCall.allowEncodingKeys) => typeCall.errors # <<>>

====
